---------------------------- MODULE Spec2Model ----------------------------
(***************************************************************************)
(* A model of MultivariableChainRuleViz                                    *)
(* (src/js/multivariable-chain-rule-standalone.js): the camera and scene   *)
(* fields of one instance, its event handlers and public methods, the      *)
(* perspective projection and the depth-sorted surface renderer.           *)
(*                                                                         *)
(* JavaScript Numbers are modelled in fixed point:                         *)
(*   - world coordinates, distances and function values in 1/One units,    *)
(*   - angles and the values of sin/cos in 1/AngleOne units,               *)
(*   - screen coordinates in 1/Px pixels,                                  *)
(* every product or quotient being rounded to the nearest unit (RDiv), as  *)
(* a double rounds to the nearest representable value.                     *)
(***************************************************************************)
EXTENDS Integers, Sequences, FiniteSets, TLC

VARIABLES
    cameraAngleX, cameraAngleY, cameraDistance,   \* camera state
    isDragging, lastMouseX, lastMouseY,           \* drag state
    pointX, pointY, tParam, directionAngle, magnitude,
    showGrid, showCurve, showTangentPlane, showVectors,
    currentFunction,
    functions,      \* the own keys of this.functions
    ctx,            \* the 2D context's drawing state (styles, width, dash)
    calls,          \* paint commands issued by the most recent handler or method call
    renders,        \* number of render() invocations made by that call
    threw,          \* that call ended by a TypeError
    returned,       \* <<v>> when that call returned the value v, else <<>>
    lastCall,       \* the listener or method entered most recently
    ops,            \* number of calls made so far (capped by MaxOps in Spec)
    \* GradientDescentViz (src/js/gradient-descent-standalone.js)
    dataPoints,     \* sequence of [x, y]
    m0, m1, learningRate,
    pathHistory,    \* sequence of <<m0, m1>>
    currentView,    \* "data" or "surface"
    scene,          \* this.scene is set (three.js is loaded, initThree has run)
    numDataPoints,  \* this.options.numDataPoints
    arguments,      \* the arguments of the most recent call of that instance
    invoked,        \* what that call invoked: updates, WebGL renders, draw()
    \* analyze_extrema (src/new applets for integration/analyze_extrema.m)
    fs,             \* the symbolic expression in (x, y)
    xInterval, yInterval,   \* the interval arguments, <<>> where not given
    out             \* the struct the call returned, <<>> before it returns

vars == <<cameraAngleX, cameraAngleY, cameraDistance, isDragging, lastMouseX,
          lastMouseY, pointX, pointY, tParam, directionAngle, magnitude,
          showGrid, showCurve, showTangentPlane, showVectors, currentFunction,
          functions, ctx, calls, renders, threw, returned, lastCall, ops,
          dataPoints, m0, m1, learningRate, pathHistory, currentView, scene,
          numDataPoints, arguments, invoked, fs, xInterval, yInterval, out>>

cameraVars == <<cameraAngleX, cameraAngleY, cameraDistance>>

sceneVars == <<pointX, pointY, tParam, directionAngle, magnitude, showGrid,
               showCurve, showTangentPlane, showVectors, currentFunction>>

descentVars == <<dataPoints, m0, m1, learningRate, pathHistory, currentView,
                 scene, numDataPoints, arguments, invoked>>

extremaVars == <<fs, xInterval, yInterval, out>>

----------------------------------------------------------------------------
(* Bounds of the model.                                                    *)

\* Calls explored from the constructor state in Spec.
MaxOps == 2
\* |cameraAngleY| explored, in 1/AngleOne radians (the code leaves yaw unbounded).
MaxYaw == 40000
\* Mesh cells per axis in drawSurface (25 in the source).
resolution == 3
\* Segments of the parametric curve in drawCurve (100 in the source).
steps == 2
\* Samples per axis scanned by the click handler (40 in the source).
clickSamples == 4
\* Calls explored from the constructed GradientDescentViz in SpecDescent.
MaxCalls == 2
\* Largest numSteps passed to GradientDescentViz.step.
MaxSteps == 2
\* Largest options.numDataPoints (20 by default in the source).
MaxDataPoints == 2

----------------------------------------------------------------------------
(* Fixed-point arithmetic.                                                 *)

One == 1000
AngleOne == 10000
Px == 10

\* Values standing for the non-finite doubles a division by zero produces.
Infinity == 1000000000
NaN == 1000000001

\* F applied to the value of e, e being evaluated once: a `const x = e`.
Bind(e, F(_)) == CHOOSE y \in {F(x) : x \in {e}} : TRUE

Abs(x) == IF x < 0 THEN -x ELSE x
MathMax(a, b) == IF a = NaN \/ b = NaN THEN NaN ELSE IF a >= b THEN a ELSE b
MathMin(a, b) == IF a = NaN \/ b = NaN THEN NaN ELSE IF a <= b THEN a ELSE b

\* n / d rounded to the nearest integer (d # 0).
RDiv(n, d) ==
    LET a == IF d < 0 THEN -n ELSE n
        b == IF d < 0 THEN -d ELSE d
    IN  (2 * a + b) \div (2 * b)

\* pi, pi/2 and 2 pi in 1/AngleOne radians.
MathPI == 31416
HalfPI == 15708
TwoPI == 62832

\* The Taylor polynomial of sin on [-pi/2, pi/2].
SinSeries(x) ==
    Bind(RDiv(x * x, AngleOne), LAMBDA x2 :
        Bind(RDiv(x * x2, 6 * AngleOne), LAMBDA t3 :
            Bind(RDiv(t3 * x2, 20 * AngleOne), LAMBDA t5 :
                Bind(RDiv(t5 * x2, 42 * AngleOne), LAMBDA t7 :
                    x - t3 + t5 - t7 + RDiv(t7 * x2, 72 * AngleOne)))))

\* Math.sin and Math.cos: argument and value in 1/AngleOne units.
MathSin(a) ==
    Bind(((a + MathPI) % TwoPI) - MathPI, LAMBDA r :
        Bind(IF r > HalfPI THEN MathPI - r
             ELSE IF r < -HalfPI THEN -MathPI - r ELSE r,
             LAMBDA x : SinSeries(x)))

MathCos(a) == MathSin(a + HalfPI)

RECURSIVE SqrtIter(_, _)
SqrtIter(n, g) ==
    Bind(<<g, (g + n \div g) \div 2>>, LAMBDA a :
        IF a[2] >= a[1] THEN a[1] ELSE SqrtIter(n, a[2]))

\* Math.sqrt on a non-negative integer, rounded to the nearest integer.
MathSqrt(n) ==
    IF n <= 0 THEN 0
    ELSE Bind(SqrtIter(n, IF n > 46340 THEN 46340 ELSE n), LAMBDA g :
            IF n - g * g > g THEN g + 1 ELSE g)

\* Math.hypot, on screen coordinates.
MathHypot(dx, dy) ==
    Bind((IF Abs(dx) >= Abs(dy) THEN Abs(dx) ELSE Abs(dy)) \div 30000 + 1, LAMBDA k :
        k * MathSqrt((dx \div k) * (dx \div k) + (dy \div k) * (dy \div k)))

\* Math.atan2(dy, dx) in 1/AngleOne radians: a polynomial estimate of the
\* angle in the first octant, one Newton step on  dy cos a - dx sin a = 0,
\* then the reflections that bring the octant back.
AtanOctant(lo, hi) ==
    Bind(RDiv(lo * AngleOne, hi), LAMBDA t :
        Bind(RDiv(7854 * t, AngleOne)
             + RDiv(RDiv(t * (AngleOne - t), AngleOne) * (2447 + RDiv(663 * t, AngleOne)),
                    AngleOne),
             LAMBDA a0 :
                Bind(<<MathCos(a0), MathSin(a0)>>, LAMBDA cs :
                    Bind(RDiv(hi * cs[1] + lo * cs[2], AngleOne), LAMBDA den :
                        IF den = 0 THEN a0
                        ELSE a0 + RDiv(RDiv(lo * cs[1] - hi * cs[2], AngleOne) * AngleOne,
                                       den)))))

MathAtan2(dy, dx) ==
    Bind((IF Abs(dx) >= Abs(dy) THEN Abs(dx) ELSE Abs(dy)) \div 20000 + 1, LAMBDA k :
        Bind(<<Abs(dx) \div k, Abs(dy) \div k>>, LAMBDA b :
            Bind(IF b[1] = 0 /\ b[2] = 0 THEN 0
                 ELSE IF b[1] >= b[2] THEN AtanOctant(b[2], b[1])
                 ELSE HalfPI - AtanOctant(b[1], b[2]),
                 LAMBDA q :
                    IF dy < 0
                    THEN -(IF dx >= 0 THEN q ELSE MathPI - q)
                    ELSE IF dx >= 0 THEN q ELSE MathPI - q)))

----------------------------------------------------------------------------
(* The function table.                                                     *)

BuiltinFunctions == {"paraboloid", "saddle", "waves", "hill"}

\* An entry client code adds to the table: functions.flat with f = 0 and
\* both partials 0.
UserFunctions == {"flat"}

\* Names every object inherits from Object.prototype.
ObjectPrototypeKeys == {"constructor", "toString", "valueOf", "hasOwnProperty"}

\* this.functions[key]: an own entry, an inherited member, or undefined.
functionsLookup(own, key) ==
    IF key \in own THEN "entry"
    ELSE IF key \in ObjectPrototypeKeys THEN "inherited"
    ELSE "undefined"

\* Truthiness of this.functions[key].
functionsTruthy(own, key) == functionsLookup(own, key) # "undefined"

\* func.f is callable only on an entry of the table.
hasSurface(s) == functionsLookup(s.functions, s.currentFunction) = "entry"

Sq(x) == RDiv(x * x, One)
SinCoord(x) == MathSin(x * (AngleOne \div One))
CosCoord(x) == MathCos(x * (AngleOne \div One))

\* functions[name].f(x, y)
f(name, x, y) ==
    CASE name = "paraboloid" -> Sq(x) + Sq(y)
      [] name = "saddle"     -> Sq(x) - Sq(y)
      [] name = "waves"      -> RDiv(SinCoord(x) * CosCoord(y), AngleOne * (AngleOne \div One))
      [] name = "hill"       -> RDiv(3 * One * One, One + Sq(x) + Sq(y))
      [] name = "flat"       -> 0
      [] OTHER               -> 0

\* functions[name].dfdx(x, y)
dfdx(name, x, y) ==
    CASE name = "paraboloid" -> 2 * x
      [] name = "saddle"     -> 2 * x
      [] name = "waves"      -> RDiv(CosCoord(x) * CosCoord(y), AngleOne * (AngleOne \div One))
      [] name = "hill"       -> RDiv(-6 * x * One, Sq(One + Sq(x) + Sq(y)))
      [] name = "flat"       -> 0
      [] OTHER               -> 0

\* functions[name].dfdy(x, y)
dfdy(name, x, y) ==
    CASE name = "paraboloid" -> 2 * y
      [] name = "saddle"     -> -2 * y
      [] name = "waves"      -> RDiv(-(SinCoord(x) * SinCoord(y)), AngleOne * (AngleOne \div One))
      [] name = "hill"       -> RDiv(-6 * y * One, Sq(One + Sq(x) + Sq(y)))
      [] name = "flat"       -> 0
      [] OTHER               -> 0

----------------------------------------------------------------------------
(* The instance and its canvas.                                            *)

canvasWidth == 900
canvasHeight == 700

Style(color, alpha) == [color |-> color, alpha |-> alpha]

\* The drawing state of a fresh 2D context; lineWidth in tenths of a pixel.
NewContext ==
    [strokeStyle |-> Style("#000", One), fillStyle |-> Style("#000", One),
     lineWidth |-> 10, lineDash |-> <<>>]

\* The instance as one record: the fields of `this`, the context and the
\* record of what the current call has done so far.
This ==
    [cameraAngleX |-> cameraAngleX, cameraAngleY |-> cameraAngleY,
     cameraDistance |-> cameraDistance, isDragging |-> isDragging,
     lastMouseX |-> lastMouseX, lastMouseY |-> lastMouseY,
     pointX |-> pointX, pointY |-> pointY, tParam |-> tParam,
     directionAngle |-> directionAngle, magnitude |-> magnitude,
     showGrid |-> showGrid, showCurve |-> showCurve,
     showTangentPlane |-> showTangentPlane, showVectors |-> showVectors,
     currentFunction |-> currentFunction, functions |-> functions,
     ctx |-> ctx, calls |-> calls, renders |-> renders, threw |-> threw,
     returned |-> returned]

\* The state the constructor leaves.
constructor ==
    [cameraAngleX |-> 3000, cameraAngleY |-> 8000, cameraDistance |-> 8 * One,
     isDragging |-> FALSE, lastMouseX |-> 0, lastMouseY |-> 0,
     pointX |-> 0, pointY |-> 0, tParam |-> RDiv(MathPI * One, 4 * AngleOne),
     directionAngle |-> HalfPI, magnitude |-> One,
     showGrid |-> TRUE, showCurve |-> TRUE,
     showTangentPlane |-> TRUE, showVectors |-> TRUE,
     currentFunction |-> "paraboloid", functions |-> BuiltinFunctions,
     ctx |-> NewContext, calls |-> <<>>, renders |-> 0, threw |-> FALSE,
     returned |-> <<>>]

----------------------------------------------------------------------------
(* 3D to 2D projection.                                                    *)

\* What project3D reads of the instance: the sines and cosines of the two
\* camera angles, the camera distance and the centre of the canvas.
\* A variant of View whose yaw follows the pointer of the drag in progress.
View_followsPointer(s) ==
    [cosY |-> MathCos(s.cameraAngleY + s.lastMouseX * (AngleOne \div 100)),
     sinY |-> MathSin(s.cameraAngleY + s.lastMouseX * (AngleOne \div 100)),
     cosX |-> MathCos(s.cameraAngleX), sinX |-> MathSin(s.cameraAngleX),
     cameraDistance |-> s.cameraDistance,
     centerX |-> (canvasWidth * Px) \div 2, centerY |-> (canvasHeight * Px) \div 2]

View(s) ==
    [cosY |-> MathCos(s.cameraAngleY), sinY |-> MathSin(s.cameraAngleY),
     cosX |-> MathCos(s.cameraAngleX), sinX |-> MathSin(s.cameraAngleX),
     cameraDistance |-> s.cameraDistance,
     centerX |-> (canvasWidth * Px) \div 2, centerY |-> (canvasHeight * Px) \div 2]

\* offset = coordinate * (600 / z2), on the screen.
Perspective(coordinate, z2) ==
    IF z2 = 0
    THEN IF coordinate = 0 THEN NaN ELSE IF coordinate > 0 THEN Infinity ELSE -Infinity
    ELSE IF (Abs(coordinate) * 600) \div Abs(z2) > 1000000
    THEN IF (coordinate > 0) = (z2 > 0) THEN Infinity ELSE -Infinity
    ELSE RDiv(coordinate * 600 * Px, z2)

Plus(base, offset) ==
    IF Abs(offset) >= Infinity THEN offset ELSE base + offset

Minus(base, offset) ==
    IF offset = NaN THEN NaN ELSE IF Abs(offset) >= Infinity THEN -offset ELSE base - offset

\* A variant of rotate that applies the camera distance before the rotation
\* about the X axis instead of after it.
rotate_distanceFirst(v, x, y, z) ==
    Bind(<<RDiv(x * v.cosY - z * v.sinY, AngleOne),
           RDiv(x * v.sinY + z * v.cosY, AngleOne) + v.cameraDistance, y>>,
         LAMBDA r1 :
            [x2 |-> r1[1],
             y2 |-> RDiv(r1[3] * v.cosX - r1[2] * v.sinX, AngleOne),
             z2 |-> RDiv(r1[3] * v.sinX + r1[2] * v.cosX, AngleOne)])

\* The two rotations and the camera offset: x2, y2 and z2 of project3D.
rotate(v, x, y, z) ==
    Bind(<<RDiv(x * v.cosY - z * v.sinY, AngleOne),
           RDiv(x * v.sinY + z * v.cosY, AngleOne), y>>,
         LAMBDA r1 :
            [x2 |-> r1[1],
             y2 |-> RDiv(r1[3] * v.cosX - r1[2] * v.sinX, AngleOne),
             z2 |-> RDiv(r1[3] * v.sinX + r1[2] * v.cosX, AngleOne) + v.cameraDistance])

\* A variant of project3D that adds the vertical offset to the centre, as
\* for a y axis pointing down the screen.
project3D_yDown(v, x, y, z) ==
    Bind(rotate(v, x, y, z),
         LAMBDA r2 :
            [x |-> Plus(v.centerX, Perspective(r2.x2, r2.z2)),
             y |-> Plus(v.centerY, Perspective(r2.y2, r2.z2)),
             depth |-> r2.z2])

project3D(v, x, y, z) ==
    Bind(rotate(v, x, y, z),
         LAMBDA r2 :
            [x |-> Plus(v.centerX, Perspective(r2.x2, r2.z2)),
             y |-> Minus(v.centerY, Perspective(r2.y2, r2.z2)),
             depth |-> r2.z2])

----------------------------------------------------------------------------
(* The 2D context: style assignments and the paint commands they affect.   *)

XY(p) == <<p.x, p.y>>

\* The projection of (x, y, z) as a point of a path.
projectXY(v, x, y, z) == Bind(project3D(v, x, y, z), LAMBDA p : <<p.x, p.y>>)

setStrokeStyle(s, style) == [s EXCEPT !.ctx.strokeStyle = style]
setFillStyle(s, style) == [s EXCEPT !.ctx.fillStyle = style]
setLineWidth(s, width) == [s EXCEPT !.ctx.lineWidth = width]
setLineDash(s, dash) == [s EXCEPT !.ctx.lineDash = dash]

\* What a paint command of the surface is drawn from: the depth the sort
\* gave its triangle and the triangle's light intensity (0, 0 elsewhere).
NoTag == [depth |-> 0, light |-> 0]

\* A stroke() of the current path, painted with the context's current
\* stroke style, line width and dash pattern.
StrokeCmd(c, layer, shape, pts, r) ==
    [op |-> "stroke", layer |-> layer, shape |-> shape, pts |-> pts, r |-> r,
     style |-> c.strokeStyle, lineWidth |-> c.lineWidth, lineDash |-> c.lineDash,
     tag |-> NoTag]

\* A fill() of the current path, painted with the current fill style.
FillCmd(c, layer, shape, pts, r) ==
    [op |-> "fill", layer |-> layer, shape |-> shape, pts |-> pts, r |-> r,
     style |-> c.fillStyle, lineWidth |-> 0, lineDash |-> <<>>, tag |-> NoTag]

ClearCmd ==
    [op |-> "clearRect", layer |-> "canvas", shape |-> "rect",
     pts |-> <<<<0, 0>>, <<canvasWidth * Px, canvasHeight * Px>>>>, r |-> 0,
     style |-> Style("none", 0), lineWidth |-> 0, lineDash |-> <<>>, tag |-> NoTag]

stroke(s, layer, shape, pts, r) ==
    Bind(s, LAMBDA t :
        [t EXCEPT !.calls = Append(@, StrokeCmd(t.ctx, layer, shape, pts, r))])

fill(s, layer, shape, pts, r) ==
    Bind(s, LAMBDA t :
        [t EXCEPT !.calls = Append(@, FillCmd(t.ctx, layer, shape, pts, r))])

clearRect(s) == [s EXCEPT !.calls = Append(@, ClearCmd)]

----------------------------------------------------------------------------
(* Axes, lines and the grid.                                               *)

drawLine3D(s, v, layer, x1, y1, z1, x2, y2, z2, color, width) ==
    stroke(setLineWidth(setStrokeStyle(s, Style(color, One)), width),
           layer, "line", <<projectXY(v, x1, y1, z1), projectXY(v, x2, y2, z2)>>, 0)

drawAxes(s, v) ==
    LET axisLength == 3 * One
        sx == drawLine3D(s, v, "axes", 0, 0, 0, axisLength, 0, 0, "#e94560", 20)
        sy == drawLine3D(sx, v, "axes", 0, 0, 0, 0, axisLength, 0, "#4ecca3", 20)
    IN  drawLine3D(sy, v, "axes", 0, 0, 0, 0, 0, axisLength, "#00d9ff", 20)

drawGrid(s, v) ==
    Bind(s, LAMBDA t :
        IF ~t.showGrid THEN t
        ELSE
        LET gridSize == 2 * One
            step == One \div 2
            n == (2 * gridSize) \div step + 1
            c == [t.ctx EXCEPT !.strokeStyle = Style("rgb(74, 85, 104)", 300),
                               !.lineWidth = 10]
            lineY(i) == <<projectXY(v, -gridSize, -gridSize + (i - 1) * step, 0),
                          projectXY(v, gridSize, -gridSize + (i - 1) * step, 0)>>
            lineX(i) == <<projectXY(v, -gridSize + (i - 1) * step, -gridSize, 0),
                          projectXY(v, -gridSize + (i - 1) * step, gridSize, 0)>>
        IN  [t EXCEPT !.ctx = c,
                      !.calls = @ \o
                        [i \in 1..(2 * n) |->
                            StrokeCmd(c, "grid", "line",
                                      IF i <= n THEN lineY(i) ELSE lineX(i - n), 0)]])

----------------------------------------------------------------------------
(* The surface: mesh, painter's sort and flat shading.                     *)

Vertex(x, y, z) == [x |-> x, y |-> y, z |-> z]

\* Variant: the cell is split along its other diagonal, (x1,y1)-(x2,y2).
cellTriangle_otherDiagonal(name, i, j, k) ==
    LET range == 2 * One
        step == RDiv(2 * range, resolution)
        x1 == -range + i * step
        y1 == -range + j * step
        x2 == x1 + step
        y2 == y1 + step
    IN  IF k = 1
        THEN [p1 |-> Vertex(x1, y1, f(name, x1, y1)),
              p2 |-> Vertex(x2, y1, f(name, x2, y1)),
              p3 |-> Vertex(x2, y2, f(name, x2, y2))]
        ELSE [p1 |-> Vertex(x1, y1, f(name, x1, y1)),
              p2 |-> Vertex(x2, y2, f(name, x2, y2)),
              p3 |-> Vertex(x1, y2, f(name, x1, y2))]

\* The two triangles pushed for the cell (i, j): k = 1 and k = 2.
cellTriangle(name, i, j, k) ==
    LET range == 2 * One
        step == RDiv(2 * range, resolution)
        x1 == -range + i * step
        y1 == -range + j * step
        x2 == x1 + step
        y2 == y1 + step
    IN  IF k = 1
        THEN [p1 |-> Vertex(x1, y1, f(name, x1, y1)),
              p2 |-> Vertex(x2, y1, f(name, x2, y1)),
              p3 |-> Vertex(x1, y2, f(name, x1, y2))]
        ELSE [p1 |-> Vertex(x2, y1, f(name, x2, y1)),
              p2 |-> Vertex(x2, y2, f(name, x2, y2)),
              p3 |-> Vertex(x1, y2, f(name, x1, y2))]

\* The triangles drawSurface pushes, in push order.
meshTriangles(s) ==
    Bind(s.currentFunction, LAMBDA name :
        [k \in 1..(2 * resolution * resolution) |->
            cellTriangle(name, ((k - 1) \div 2) \div resolution,
                         ((k - 1) \div 2) % resolution, 2 - (k % 2))])

\* tri.depth: the depth of the projected centroid.
centroidDepth(v, tri) ==
    project3D(v, RDiv(tri.p1.x + tri.p2.x + tri.p3.x, 3),
                 RDiv(tri.p1.y + tri.p2.y + tri.p3.y, 3),
                 RDiv(tri.p1.z + tri.p2.z + tri.p3.z, 3)).depth

\* A variant of the comparator that sorts nearest first.
compareDepth_ascending(a, b) == a.depth - b.depth

\* The comparator handed to Array.prototype.sort.
compareDepth(a, b) == b.depth - a.depth

\* Array.prototype.sort: the stable permutation that puts a before b when
\* compare(a, b) < 0 and keeps the order of the elements that compare equal.
\* sortRank is the index the k-th element receives.
sortRank(seq, k) ==
    Cardinality({i \in 1..Len(seq) :
                    \/ compareDepth(seq[i], seq[k]) < 0
                    \/ compareDepth(seq[i], seq[k]) = 0 /\ i < k}) + 1

sort(seq) ==
    Bind(seq, LAMBDA a :
        Bind([k \in 1..Len(a) |-> sortRank(a, k)], LAMBDA rank :
            [r \in 1..Len(a) |-> a[CHOOSE k \in 1..Len(a) : rank[k] = r]]))

\* The triangle list after the forEach that sets depth and the sort.
sortedTriangles(s, v) ==
    Bind(meshTriangles(s), LAMBDA mesh :
        Bind([k \in 1..Len(mesh) |->
                 [p1 |-> mesh[k].p1, p2 |-> mesh[k].p2, p3 |-> mesh[k].p3,
                  depth |-> centroidDepth(v, mesh[k])]],
             LAMBDA tagged : sort(tagged)))

\* The normal (P2-P1) x (P3-P1) of a triangle.
normal(tri) ==
    LET v1x == tri.p2.x - tri.p1.x
        v1y == tri.p2.y - tri.p1.y
        v1z == tri.p2.z - tri.p1.z
        v2x == tri.p3.x - tri.p1.x
        v2y == tri.p3.y - tri.p1.y
        v2z == tri.p3.z - tri.p1.z
    IN  [nx |-> RDiv(v1y * v2z - v1z * v2y, One),
         ny |-> RDiv(v1z * v2x - v1x * v2z, One),
         nz |-> RDiv(v1x * v2y - v1y * v2x, One)]

\* Math.max(0.2, (nx + ny + nz * 2) / |n| * 0.5 + 0.5), in 1/One units.
lightOf(n) ==
    Bind(MathSqrt(n.nx * n.nx + n.ny * n.ny + n.nz * n.nz), LAMBDA len :
        IF len = 0 THEN NaN
        ELSE MathMax(One \div 5,
                     RDiv(RDiv((n.nx + n.ny + n.nz * 2) * One, len), 2) + One \div 2))

lightDot(tri) == Bind(normal(tri), LAMBDA n : lightOf(n))

\* The fill() and the stroke() of one triangle of the sorted list.
trianglePaint(c, v, t) ==
    Bind(<<<<projectXY(v, t.p1.x, t.p1.y, t.p1.z),
             projectXY(v, t.p2.x, t.p2.y, t.p2.z),
             projectXY(v, t.p3.x, t.p3.y, t.p3.z)>>,
           lightDot(t)>>,
         LAMBDA a :
            Bind([c EXCEPT !.fillStyle = Style("rgb(78, 204, 163)",
                                               IF a[2] = NaN THEN NaN ELSE RDiv(a[2] * 6, 10)),
                           !.strokeStyle = Style("rgb(78, 204, 163)", 300),
                           !.lineWidth = 5],
                 LAMBDA c1 :
                    [ctx |-> c1,
                     cmds |-> <<[FillCmd(c1, "surface", "polygon", a[1], 0)
                                    EXCEPT !.tag = [depth |-> t.depth, light |-> a[2]]],
                                [StrokeCmd(c1, "surface", "polygon", a[1], 0)
                                    EXCEPT !.tag = [depth |-> t.depth, light |-> a[2]]]>>]))

drawSurface(s, v) ==
    Bind(s, LAMBDA t0 :
        IF ~hasSurface(t0) THEN [t0 EXCEPT !.threw = TRUE]
        ELSE
        Bind(sortedTriangles(t0, v), LAMBDA tris :
            Bind([k \in 1..Len(tris) |-> trianglePaint(t0.ctx, v, tris[k])], LAMBDA paints :
                IF Len(paints) = 0 THEN t0
                ELSE [t0 EXCEPT !.ctx = paints[Len(paints)].ctx,
                                !.calls = @ \o
                                    [k \in 1..(2 * Len(paints)) |->
                                        paints[(k + 1) \div 2].cmds[2 - (k % 2)]]])))

----------------------------------------------------------------------------
(* Curve, tangent plane, vectors and the point.                            *)

getCurvePoint(s, t) ==
    [x |-> s.pointX + RDiv(RDiv(s.magnitude * MathCos(s.directionAngle), AngleOne)
                           * (t - s.tParam), One),
     y |-> s.pointY + RDiv(RDiv(s.magnitude * MathSin(s.directionAngle), AngleOne)
                           * (t - s.tParam), One)]

getCurveDerivative(s) ==
    [dx |-> RDiv(s.magnitude * MathCos(s.directionAngle), AngleOne),
     dy |-> RDiv(s.magnitude * MathSin(s.directionAngle), AngleOne)]

\* The i-th point of the curve's path, i = 0..steps.
curvePathPoint(s, v, i) ==
    Bind(getCurvePoint(s, (s.tParam - 2 * One)
                          + RDiv(((s.tParam + 2 * One) - (s.tParam - 2 * One)) * i, steps)),
         LAMBDA pt : projectXY(v, pt.x, pt.y, f(s.currentFunction, pt.x, pt.y)))

drawCurve(s, v) ==
    Bind(s, LAMBDA t :
        IF ~t.showCurve THEN t
        ELSE stroke(setLineWidth(setStrokeStyle(t, Style("#ffe66d", One)), 30),
                    "curve", "polyline",
                    [i \in 1..(steps + 1) |-> curvePathPoint(t, v, i - 1)], 0))

\* z0, dzdx and dzdy at the current point.
pointDerivatives(s) ==
    [z0 |-> f(s.currentFunction, s.pointX, s.pointY),
     dzdx |-> dfdx(s.currentFunction, s.pointX, s.pointY),
     dzdy |-> dfdy(s.currentFunction, s.pointX, s.pointY)]

\* The projected corners of the tangent plane patch.
tangentCorners(s, v) ==
    Bind(pointDerivatives(s), LAMBDA d :
        LET size == One \div 2
            corner(cx, cy) ==
                projectXY(v, cx, cy, d.z0 + RDiv(d.dzdx * (cx - s.pointX), One)
                                          + RDiv(d.dzdy * (cy - s.pointY), One))
        IN  <<corner(s.pointX - size, s.pointY - size),
              corner(s.pointX + size, s.pointY - size),
              corner(s.pointX + size, s.pointY + size),
              corner(s.pointX - size, s.pointY + size)>>)

drawTangentPlane(s, v) ==
    Bind(s, LAMBDA t :
        IF ~t.showTangentPlane THEN t
        ELSE Bind(tangentCorners(t, v), LAMBDA projCorners :
                stroke(fill(setLineWidth(setStrokeStyle(
                                setFillStyle(t, Style("rgb(255, 230, 109)", 300)),
                                Style("#ffe66d", One)), 20),
                            "tangentPlane", "polygon", projCorners, 0),
                       "tangentPlane", "polygon", projCorners, 0)))

Finite(x) == Abs(x) < Infinity

\* The end of one stroke of the arrowhead: 10 pixels back from (x, y) along
\* the direction `angle`.
arrowTip(x, y, angle) ==
    <<x - RDiv(10 * Px * MathCos(angle), AngleOne),
      y - RDiv(10 * Px * MathSin(angle), AngleOne)>>

\* Variant: both strokes of the arrowhead on the same side of the shaft.
arrowHead_sameSide(p1, p2) ==
    IF ~(Finite(p1[1]) /\ Finite(p1[2]) /\ Finite(p2[1]) /\ Finite(p2[2]))
    THEN <<p2, <<NaN, NaN>>, p2, <<NaN, NaN>>>>
    ELSE Bind(MathAtan2(p2[2] - p1[2], p2[1] - p1[1]), LAMBDA angle :
            <<p2, arrowTip(p2[1], p2[2], angle - RDiv(MathPI, 6)),
              p2, arrowTip(p2[1], p2[2], angle - RDiv(MathPI, 6))>>)

\* The path of the arrowhead at p2, for a shaft from p1 to p2.
arrowHead(p1, p2) ==
    IF ~(Finite(p1[1]) /\ Finite(p1[2]) /\ Finite(p2[1]) /\ Finite(p2[2]))
    THEN <<p2, <<NaN, NaN>>, p2, <<NaN, NaN>>>>
    ELSE Bind(MathAtan2(p2[2] - p1[2], p2[1] - p1[1]), LAMBDA angle :
            <<p2, arrowTip(p2[1], p2[2], angle - RDiv(MathPI, 6)),
              p2, arrowTip(p2[1], p2[2], angle + RDiv(MathPI, 6))>>)

drawArrow3D(s, v, x1, y1, z1, x2, y2, z2, color, width) ==
    Bind(<<projectXY(v, x1, y1, z1), projectXY(v, x2, y2, z2)>>, LAMBDA p :
        stroke(stroke(setLineWidth(setStrokeStyle(s, Style(color, One)), width),
                      "vectors", "line", p, 0),
               "vectors", "arrowhead", arrowHead(p[1], p[2]), 0))

drawVectors(s, v) ==
    Bind(s, LAMBDA t :
        IF ~t.showVectors THEN t
        ELSE
        Bind(pointDerivatives(t) @@ getCurveDerivative(t), LAMBDA d :
            LET half(a) == RDiv(a, 2)
                dzdt == RDiv(d.dzdx * d.dx + d.dzdy * d.dy, One)
                a1 == drawArrow3D(t, v, t.pointX, t.pointY, d.z0,
                                  t.pointX + One \div 2, t.pointY, d.z0 + half(d.dzdx),
                                  "#ff9d76", 30)
                a2 == drawArrow3D(a1, v, t.pointX, t.pointY, d.z0,
                                  t.pointX, t.pointY + One \div 2, d.z0 + half(d.dzdy),
                                  "#ff9d76", 30)
                a3 == drawArrow3D(a2, v, t.pointX, t.pointY, 0,
                                  t.pointX + half(d.dx), t.pointY + half(d.dy), 0,
                                  "#ffe66d", 30)
            IN  drawArrow3D(a3, v, t.pointX, t.pointY, d.z0,
                            t.pointX + half(d.dx), t.pointY + half(d.dy),
                            d.z0 + half(dzdt), "#00d9ff", 40)))

\* A variant of drawPoint that leaves the dash pattern set after the
\* vertical line.
drawPoint_dashLeft(s, v) ==
    Bind(s, LAMBDA t :
        Bind(<<projectXY(v, t.pointX, t.pointY, f(t.currentFunction, t.pointX, t.pointY)),
               projectXY(v, t.pointX, t.pointY, 0)>>,
             LAMBDA p :
                LET proj == p[1]
                    projBase == p[2]
                    s1 == setLineDash(setLineWidth(setStrokeStyle(
                              t, Style("rgb(233, 69, 96)", One \div 2)), 20), <<5, 5>>)
                    s2 == stroke(s1, "point", "line", <<projBase, proj>>, 0)
                    s3 == fill(setFillStyle(s2, Style("#e94560", One)),
                               "point", "circle", <<proj>>, 8)
                    s4 == stroke(setLineWidth(setStrokeStyle(s3, Style("#fff", One)), 20),
                                 "point", "circle", <<proj>>, 8)
                IN  fill(setFillStyle(s4, Style("rgb(233, 69, 96)", (7 * One) \div 10)),
                         "point", "circle", <<projBase>>, 6)))

drawPoint(s, v) ==
    Bind(s, LAMBDA t :
        Bind(<<projectXY(v, t.pointX, t.pointY, f(t.currentFunction, t.pointX, t.pointY)),
               projectXY(v, t.pointX, t.pointY, 0)>>,
             LAMBDA p :
                LET proj == p[1]
                    projBase == p[2]
                    s1 == setLineDash(setLineWidth(setStrokeStyle(
                              t, Style("rgb(233, 69, 96)", One \div 2)), 20), <<5, 5>>)
                    s2 == setLineDash(stroke(s1, "point", "line", <<projBase, proj>>, 0), <<>>)
                    s3 == fill(setFillStyle(s2, Style("#e94560", One)),
                               "point", "circle", <<proj>>, 8)
                    s4 == stroke(setLineWidth(setStrokeStyle(s3, Style("#fff", One)), 20),
                                 "point", "circle", <<proj>>, 8)
                IN  fill(setFillStyle(s4, Style("rgb(233, 69, 96)", (7 * One) \div 10)),
                         "point", "circle", <<projBase>>, 6)))

\* The value getChainRuleValues returns.
chainRuleValues(s) ==
    Bind(pointDerivatives(s) @@ getCurveDerivative(s), LAMBDA d :
        [pointX |-> s.pointX, pointY |-> s.pointY, z |-> d.z0, dzdx |-> d.dzdx,
         dzdy |-> d.dzdy, dxdt |-> d.dx, dydt |-> d.dy,
         dzdt |-> RDiv(d.dzdx * d.dx + d.dzdy * d.dy, One)])

getChainRuleValues(s) ==
    Bind(s, LAMBDA t :
        IF ~hasSurface(t) THEN [t EXCEPT !.threw = TRUE]
        ELSE [t EXCEPT !.returned = <<chainRuleValues(t)>>])

----------------------------------------------------------------------------
(* render and the public mutators.                                         *)

render(s) ==
    Bind(s, LAMBDA t :
        Bind(View(t), LAMBDA v :
            Bind(drawSurface(drawAxes(drawGrid(clearRect([t EXCEPT !.renders = @ + 1]), v), v), v),
                 LAMBDA s3 :
                    IF s3.threw THEN s3
                    ELSE drawPoint(drawVectors(drawCurve(drawTangentPlane(s3, v), v), v), v))))

\* viz.functions[name] = {f, dfdx, dfdy}: client code adds an entry.
registerFunction(s, name) == [s EXCEPT !.functions = @ \cup {name}]

setFunction(s, funcName) ==
    Bind(s, LAMBDA t :
        IF functionsTruthy(t.functions, funcName)
        THEN render([t EXCEPT !.currentFunction = funcName])
        ELSE t)

\* A variant of setPoint that assigns the fields and leaves the redraw to
\* the caller.
setPoint_fieldsOnly(s, x, y) == [s EXCEPT !.pointX = x, !.pointY = y]

setPoint(s, x, y) == render([s EXCEPT !.pointX = x, !.pointY = y])

\* A variant of setDirection that stores the angle in the camera's yaw.
setDirection_turnsCamera(s, angle, mag) ==
    render([s EXCEPT !.cameraAngleY = angle, !.magnitude = mag])

setDirection(s, angle, mag) ==
    render([s EXCEPT !.directionAngle = angle, !.magnitude = mag])

toggleGrid(s) == render([s EXCEPT !.showGrid = ~@])

\* A variant of toggleCurve that flips the grid's flag.
toggleCurve_flipsGrid(s) == render([s EXCEPT !.showGrid = ~@])

toggleCurve(s) == render([s EXCEPT !.showCurve = ~@])
toggleTangentPlane(s) == render([s EXCEPT !.showTangentPlane = ~@])
toggleVectors(s) == render([s EXCEPT !.showVectors = ~@])

----------------------------------------------------------------------------
(* The event listeners; e.clientX, e.clientY and e.deltaY are integers.    *)

mousedown(s, clientX, clientY) ==
    [s EXCEPT !.isDragging = TRUE, !.lastMouseX = clientX, !.lastMouseY = clientY]

\* A variant of mousemove without the clamp of the pitch.
mousemove_unclamped(s, clientX, clientY) ==
    Bind(s, LAMBDA t :
        IF t.isDragging
        THEN render([t EXCEPT
                 !.cameraAngleY = @ + (clientX - t.lastMouseX) * (AngleOne \div 100),
                 !.cameraAngleX = @ + (clientY - t.lastMouseY) * (AngleOne \div 100),
                 !.lastMouseX = clientX, !.lastMouseY = clientY])
        ELSE t)

\* One pixel of drag turns the camera by 0.01 radian.
mousemove(s, clientX, clientY) ==
    Bind(s, LAMBDA t :
        IF t.isDragging
        THEN render([t EXCEPT
                 !.cameraAngleY = @ + (clientX - t.lastMouseX) * (AngleOne \div 100),
                 !.cameraAngleX = MathMax(-HalfPI, MathMin(HalfPI,
                                      @ + (clientY - t.lastMouseY) * (AngleOne \div 100))),
                 !.lastMouseX = clientX, !.lastMouseY = clientY])
        ELSE t)

mouseup(s) == [s EXCEPT !.isDragging = FALSE]

\* One unit of wheel delta moves the camera by 0.01.
wheel(s, deltaY) ==
    render([s EXCEPT !.cameraDistance =
               MathMax(3 * One, MathMin(15 * One, @ + deltaY * (One \div 100)))])

\* The scan of the click handler: clickSamples samples per axis, starting
\* at -2. The source steps by 0.1 while x <= 2; in doubles 40 additions of
\* 0.1 to -2 give 2.0000000000000013 > 2, so each loop takes the 40 samples
\* -2, -1.9, ..., 1.9 and never reaches 2. The model keeps that shape with
\* fewer samples: -2, -2 + clickStep, ..., 2 - clickStep.
clickStep == (4 * One) \div clickSamples

\* Math.hypot(proj.x - clickX, proj.y - clickY) for the sample (x, y).
clickDistance(v, clickX, clickY, x, y) ==
    Bind(project3D(v, x, y, 0), LAMBDA proj :
        IF Finite(proj.x) /\ Finite(proj.y)
        THEN MathHypot(proj.x - clickX * Px, proj.y - clickY * Px)
        ELSE NaN)

\* One iteration of the inner loop: the best sample so far after (x, y).
scanStep(v, clickX, clickY, x, y, best) ==
    Bind(<<clickDistance(v, clickX, clickY, x, y), best>>, LAMBDA a :
        IF a[1] # NaN /\ a[1] < a[2].minDist
        THEN [minDist |-> a[1], bestX |-> x, bestY |-> y]
        ELSE a[2])

RECURSIVE scanRow(_, _, _, _, _, _)
scanRow(v, clickX, clickY, x, j, best) ==
    IF j = 0 THEN best
    ELSE scanStep(v, clickX, clickY, x, -2 * One + (j - 1) * clickStep,
                  scanRow(v, clickX, clickY, x, j - 1, best))

RECURSIVE scanGrid(_, _, _, _, _)
scanGrid(v, clickX, clickY, i, best) ==
    IF i = 0 THEN best
    ELSE Bind(scanGrid(v, clickX, clickY, i - 1, best), LAMBDA before :
            scanRow(v, clickX, clickY, -2 * One + (i - 1) * clickStep, clickSamples,
                    before))

\* clickX, clickY: the position of the click relative to the canvas.
click(s, clickX, clickY) ==
    Bind(s, LAMBDA t :
        IF t.isDragging THEN t
        ELSE Bind(View(t), LAMBDA v :
                Bind(scanGrid(v, clickX, clickY, clickSamples,
                              [minDist |-> Infinity, bestX |-> 0, bestY |-> 0]),
                     LAMBDA best :
                        IF best.minDist < 30 * Px
                        THEN render([t EXCEPT !.pointX = best.bestX, !.pointY = best.bestY])
                        ELSE t)))

----------------------------------------------------------------------------
(* GradientDescentViz: its fields, the random data, the descent update and *)
(* the public methods.  Parameters, data coordinates, the learning rate    *)
(* and the values of Math.random() are in 1/One units.                     *)

\* Math.random() is a seeded generator: the j-th value it returns after it
\* was seeded with `seed`, one of 0, 0.25, 0.5 and 0.75.
Seeds == {0, 5, 10, 15}

RECURSIVE RandomState(_, _)
RandomState(seed, j) ==
    IF j = 0 THEN seed ELSE (5 * RandomState(seed, j - 1) + 3) % 16

MathRandom(seed, j) == (RandomState(seed, j) \div 4) * (One \div 4)
LearningRates == {One \div 100, One \div 50}

\* a || b for numbers.
OrDefault(a, b) == IF a = 0 \/ a = NaN THEN b ELSE a

\* The instance as one record.
Viz ==
    [dataPoints |-> dataPoints, m0 |-> m0, m1 |-> m1,
     learningRate |-> learningRate, pathHistory |-> pathHistory,
     currentView |-> currentView, scene |-> scene,
     numDataPoints |-> numDataPoints, invoked |-> invoked]

\* The fields the constructor sets before it calls init(); options holds 0
\* for an option that is not given.
GradientDescentViz(options) ==
    [dataPoints |-> <<>>, m0 |-> 0, m1 |-> One,
     learningRate |-> OrDefault(options.learningRate, One \div 100),
     pathHistory |-> <<>>, currentView |-> "data", scene |-> FALSE,
     numDataPoints |-> OrDefault(options.numDataPoints, 20),
     invoked |-> <<>>]

\* The point pushed by iteration i (from 1) of the loop of generateData:
\* x and the noise are the two draws that follow those of earlier iterations.
dataPoint(trueM0, trueM1, seed, i) ==
    LET x == MathRandom(seed, 2 * i + 1) * 10 - 5 * One
        noise == (MathRandom(seed, 2 * i + 2) - One \div 2) * 2
    IN  [x |-> x, y |-> trueM0 + RDiv(trueM1 * x, One) + noise]

generateData(s, seed) ==
    LET trueM0 == MathRandom(seed, 1) * 4 - 2 * One
        trueM1 == MathRandom(seed, 2) * 2 + One \div 2
        n == s.numDataPoints
    IN  [s EXCEPT
            !.dataPoints = [i \in 1..n |-> dataPoint(trueM0, trueM1, seed, i)],
            !.pathHistory = << <<s.m0, s.m1>> >>]

\* pred - point.y for one point.
predictionError(a, b, point) == (a + RDiv(b * point.x, One)) - point.y

RECURSIVE sumGradM0(_, _, _, _)
sumGradM0(points, a, b, k) ==
    IF k = 0 THEN 0
    ELSE sumGradM0(points, a, b, k - 1) + 2 * predictionError(a, b, points[k])

RECURSIVE sumGradM1(_, _, _, _)
sumGradM1(points, a, b, k) ==
    IF k = 0 THEN 0
    ELSE sumGradM1(points, a, b, k - 1)
            + RDiv(2 * predictionError(a, b, points[k]) * points[k].x, One)

calculateGradient(s, a, b) ==
    LET n == Len(s.dataPoints)
    IN  IF n = 0 THEN [gradM0 |-> NaN, gradM1 |-> NaN]
        ELSE [gradM0 |-> RDiv(sumGradM0(s.dataPoints, a, b, n), n),
              gradM1 |-> RDiv(sumGradM1(s.dataPoints, a, b, n), n)]

\* The WebGL surface is rendered only once three.js has been set up.
updateThreeScene(s) ==
    IF ~s.scene THEN s ELSE [s EXCEPT !.invoked = Append(@, "renderer.render")]

\* Variant: m1 is updated against the gradient at the updated m0.
descend_sequential(s) ==
    LET g == calculateGradient(s, s.m0, s.m1)
    IN  IF g.gradM0 = NaN THEN <<NaN, NaN>>
        ELSE Bind(s.m0 - RDiv(s.learningRate * g.gradM0, One), LAMBDA a :
                <<a, s.m1 - RDiv(s.learningRate
                                   * calculateGradient(s, a, s.m1).gradM1, One)>>)

\* One update of (m0, m1) against the gradient at the current parameters.
descend(s) ==
    LET g == calculateGradient(s, s.m0, s.m1)
    IN  IF g.gradM0 = NaN THEN <<NaN, NaN>>
        ELSE <<s.m0 - RDiv(s.learningRate * g.gradM0, One),
               s.m1 - RDiv(s.learningRate * g.gradM1, One)>>

gradientDescentStep(s) ==
    Bind(descend(s), LAMBDA m :
        LET t == [s EXCEPT !.m0 = m[1], !.m1 = m[2],
                           !.pathHistory = Append(@, m),
                           !.invoked = Append(@, "gradientDescentStep")]
        IN  IF t.currentView = "surface" THEN updateThreeScene(t) ELSE t)

\* drawParamSpace, drawDataView in the data view, updateInfo.
draw(s) == [s EXCEPT !.invoked = Append(@, "draw")]

\* numSteps = 1 when step is called without an argument.
numStepsOf(args) == IF args = <<>> THEN 1 ELSE args[1]

RECURSIVE stepLoop(_, _, _)
stepLoop(s, i, numSteps) ==
    IF i < numSteps THEN stepLoop(gradientDescentStep(s), i + 1, numSteps) ELSE s

\* Variant: the loop counter starts at 1.
step_countsFromOne(s, args) == draw(stepLoop(s, 1, numStepsOf(args)))

step(s, args) == draw(stepLoop(s, 0, numStepsOf(args)))

reset(s, seed) ==
    LET a == MathRandom(seed, 1) * 4 - 2 * One
        b == MathRandom(seed, 2) * 4 - 2 * One
    IN  draw([s EXCEPT !.m0 = a, !.m1 = b, !.pathHistory = << <<a, b>> >>])

\* Variant: the recorded path survives the new data.
newData_keepsPath(s, seed) ==
    draw([generateData(s, seed) EXCEPT !.pathHistory = s.pathHistory])

newData(s, seed) == draw(generateData(s, seed))

setLearningRate(s, alpha) == [s EXCEPT !.learningRate = alpha]

\* The click listener of the view toggle button.
toggleView(s) ==
    LET t == [s EXCEPT !.currentView = IF @ = "data" THEN "surface" ELSE "data"]
    IN  IF t.currentView = "surface" THEN updateThreeScene(t) ELSE t

\* initThree: run by setupThree, or by the onload of the three.js script.
initThree(s) == updateThreeScene([s EXCEPT !.scene = TRUE])

\* init(): setupThree runs initThree at once where three.js is already
\* loaded; then the data are generated and the views drawn.
init(s, threeLoaded, seed) ==
    draw(generateData(IF threeLoaded THEN initThree(s) ELSE s, seed))

----------------------------------------------------------------------------
(* analyze_extrema: doubles in 1/One units with NaN and +/-Infinity, the   *)
(* answers of the symbolic toolbox for a family of expressions, and the    *)
(* tables the function builds from them.                                   *)

\* Relational operators on doubles: false where an operand is NaN.
Gt(a, b) == a # NaN /\ b # NaN /\ a > b
Lt(a, b) == a # NaN /\ b # NaN /\ a < b
Ge(a, b) == a # NaN /\ b # NaN /\ a >= b
Le(a, b) == a # NaN /\ b # NaN /\ a <= b

isfinite(a) == a # NaN /\ Abs(a) < Infinity

\* a * b and a - b on finite doubles or NaN.
Times(a, b) == IF a = NaN \/ b = NaN THEN NaN ELSE RDiv(a * b, One)
Less(a, b) == IF a = NaN \/ b = NaN THEN NaN ELSE a - b

\* Variant: a vanishing discriminant counts as positive.
classify_hessian_zeroPositive(D, fxxv) ==
    IF Ge(D, 0) /\ Gt(fxxv, 0) THEN "local min"
    ELSE IF Ge(D, 0) /\ Lt(fxxv, 0) THEN "local max"
    ELSE IF Lt(D, 0) THEN "saddle"
    ELSE "inconclusive"

classify_hessian(D, fxxv) ==
    IF Gt(D, 0) /\ Gt(fxxv, 0) THEN "local min"
    ELSE IF Gt(D, 0) /\ Lt(fxxv, 0) THEN "local max"
    ELSE IF Lt(D, 0) THEN "saddle"
    ELSE "inconclusive"

\* The expressions analysed, written as their formulas.
Expressions ==
    {"x^2 + y^2", "-x^2 - y^2", "x^2 - y^2", "x^3 + y^2", "x + y",
     "x*y/(x^2 + y^2)"}

\* eval_sym_safe at one point: the generated function evaluated in doubles;
\* 0/0 is NaN.
eval_sym_safe(fsym, X, Y) ==
    CASE fsym = "x^2 + y^2"  -> Sq(X) + Sq(Y)
      [] fsym = "-x^2 - y^2" -> -Sq(X) - Sq(Y)
      [] fsym = "x^2 - y^2"  -> Sq(X) - Sq(Y)
      [] fsym = "x^3 + y^2"  -> RDiv(Sq(X) * X, One) + Sq(Y)
      [] fsym = "x + y"      -> X + Y
      [] fsym = "x*y/(x^2 + y^2)" ->
            IF X = 0 /\ Y = 0 THEN NaN
            ELSE RDiv(RDiv(X * Y, One) * One, Sq(X) + Sq(Y))

\* What solve([fx==0, fy==0], [x y], 'Real', true) may return, as points
\* (S.x, S.y).  The critical points of x*y/(x^2 + y^2) are the lines
\* y = x and y = -x, of which the toolbox returns no explicit point.
solveGradient(fsym) ==
    CASE fsym = "x + y" -> {<<>>}
      [] fsym = "x*y/(x^2 + y^2)" -> {<<>>}
      [] OTHER -> {<< <<0, 0>> >>}

\* safe_double of fxx, fyy and fxy at (xx, yy).
secondDerivatives(fsym, xx, yy) ==
    CASE fsym = "x^2 + y^2"  -> <<2 * One, 2 * One, 0>>
      [] fsym = "-x^2 - y^2" -> <<-2 * One, -2 * One, 0>>
      [] fsym = "x^2 - y^2"  -> <<2 * One, -2 * One, 0>>
      [] fsym = "x^3 + y^2"  -> <<6 * xx, 2 * One, 0>>
      [] fsym = "x + y"      -> <<0, 0, 0>>
      [] fsym = "x*y/(x^2 + y^2)" ->
            LET a == xx \div One
                b == yy \div One
                r == a * a + b * b
            IN  IF r = 0 THEN <<NaN, NaN, NaN>>
                ELSE <<RDiv(2 * a * b * (a * a - 3 * b * b) * One, r * r * r),
                       RDiv(2 * a * b * (b * b - 3 * a * a) * One, r * r * r),
                       RDiv((6 * a * a * b * b - a * a * a * a - b * b * b * b) * One,
                            r * r * r)>>

\* double(solve(dg==0, uSym, 'Real', true)) on the edge where the other
\* variable is otherVal; `identity` is what the toolbox answers to 0 == 0,
\* the equation of the edges y = 0 and x = 0 of x*y/(x^2 + y^2).
solveEdge(fsym, uIsX, otherVal, identity) ==
    CASE fsym = "x + y" -> <<>>
      [] fsym = "x*y/(x^2 + y^2)" ->
            IF otherVal = 0 THEN identity
            ELSE <<-Abs(otherVal), Abs(otherVal)>>
      [] OTHER -> <<0>>

\* safe_double(subs(d2g, uSym, ui)).
edgeSecondDerivative(fsym, uIsX, otherVal, ui) ==
    CASE fsym = "x^2 + y^2"  -> 2 * One
      [] fsym = "-x^2 - y^2" -> -2 * One
      [] fsym = "x^2 - y^2"  -> IF uIsX THEN 2 * One ELSE -2 * One
      [] fsym = "x^3 + y^2"  -> IF uIsX THEN 6 * ui ELSE 2 * One
      [] fsym = "x + y"      -> 0
      [] fsym = "x*y/(x^2 + y^2)" ->
            IF otherVal = 0 THEN 0
            ELSE (IF ui = otherVal THEN -1 ELSE 1)
                    * RDiv(One * One, RDiv(2 * otherVal * otherVal, One))

\* Variant: max as a plain fold, which an element that is NaN poisons.
max_includenan(v) ==
    IF \E i \in DOMAIN v : v[i] = NaN
    THEN <<NaN, CHOOSE i \in DOMAIN v : v[i] = NaN /\ \A j \in 1..(i - 1) : v[j] # NaN>>
    ELSE LET i == CHOOSE i \in DOMAIN v :
                    \A j \in DOMAIN v : v[i] > v[j] \/ (v[i] = v[j] /\ i <= j)
         IN  <<v[i], i>>

\* [m, i] = max(v) for a non-empty vector: NaN elements are skipped, the
\* first of equal maxima is reported; all NaN gives NaN at index 1.
max(v) ==
    LET nums == {i \in DOMAIN v : v[i] # NaN}
    IN  IF nums = {} THEN <<NaN, 1>>
        ELSE LET i == CHOOSE i \in nums :
                        \A j \in nums : v[i] > v[j] \/ (v[i] = v[j] /\ i <= j)
             IN  <<v[i], i>>

\* [m, i] = min(v), likewise.
min(v) ==
    LET nums == {i \in DOMAIN v : v[i] # NaN}
    IN  IF nums = {} THEN <<NaN, 1>>
        ELSE LET i == CHOOSE i \in nums :
                        \A j \in nums : v[i] < v[j] \/ (v[i] = v[j] /\ i <= j)
             IN  <<v[i], i>>

range_(v) == IF v = <<>> THEN 0 ELSE max(v)[1] - min(v)[1]

\* uniquetol([x y], tol, 'ByRows', true): one row for each distinct (x, y),
\* in ascending order of (x, y).
uniquetol(rows) ==
    LET key(i) == <<rows[i].x, rows[i].y>>
        keys == {key(i) : i \in DOMAIN rows}
        before(a, b) == a[1] < b[1] \/ (a[1] = b[1] /\ a[2] < b[2])
        kth(r) == CHOOSE k \in keys : Cardinality({j \in keys : before(j, k)}) = r - 1
        first(k) == CHOOSE i \in DOMAIN rows :
                        key(i) = k /\ \A j \in 1..(i - 1) : key(j) # k
    IN  [r \in 1..Cardinality(keys) |-> rows[first(kth(r))]]

dedup2D(points) == IF points = <<>> THEN <<>> ELSE uniquetol(points)

dedupRows(T) == IF Len(T) <= 1 THEN T ELSE uniquetol(T)

\* The finite critical points the solver returned, without repetitions.
interiorPoints(S) ==
    dedup2D(SelectSeq([k \in DOMAIN S |-> [x |-> S[k][1], y |-> S[k][2]]],
                      LAMBDA p : isfinite(p.x) /\ isfinite(p.y)))

\* [ax bx; ay by]: the intervals given, else a padded box around the first
\* ten critical points, else [-10, 10] x [-10, 10]; the fallback as well
\* where a bound is not finite.
decideDomain(xInt, yInt, points) ==
    LET fallback == <<<<-10 * One, 10 * One>>, <<-10 * One, 10 * One>>>>
        k == MathMin(10, Len(points))
        Xs == [i \in 1..k |-> points[i].x]
        Ys == [i \in 1..k |-> points[i].y]
        padx == MathMax(One, RDiv(15 * MathMax(One, range_(Xs)), 100))
        pady == MathMax(One, RDiv(15 * MathMax(One, range_(Ys)), 100))
        widen(lo, hi) == IF lo = hi THEN <<lo - One, hi + One>> ELSE <<lo, hi>>
        d == IF xInt # <<>> /\ yInt # <<>>
             THEN <<<<min(xInt)[1], max(xInt)[1]>>, <<min(yInt)[1], max(yInt)[1]>>>>
             ELSE IF points = <<>> THEN fallback
             ELSE <<widen(min(Xs)[1] - padx, max(Xs)[1] + padx),
                    widen(min(Ys)[1] - pady, max(Ys)[1] + pady)>>
    IN  IF isfinite(d[1][1]) /\ isfinite(d[1][2]) /\ isfinite(d[2][1]) /\ isfinite(d[2][2])
        THEN d ELSE fallback

\* One row of the interior table.
interiorRow(fsym, p) ==
    LET h == secondDerivatives(fsym, p.x, p.y)
        D == Less(Times(h[1], h[2]), Times(h[3], h[3]))
    IN  [x |-> p.x, y |-> p.y, f |-> eval_sym_safe(fsym, p.x, p.y),
         D |-> D, fxx |-> h[1], class |-> classify_hessian(D, h[1])]

\* The rows of one edge: its critical points inside [u0, u1], then its two
\* endpoints.
analyze_edge_1d(fsym, edgeName, uIsX, u0, u1, otherVal, identity) ==
    LET Cu == SelectSeq(solveEdge(fsym, uIsX, otherVal, identity),
                        LAMBDA u : isfinite(u) /\ u >= u0 /\ u <= u1)
        xx(ui) == IF uIsX THEN ui ELSE otherVal
        yy(ui) == IF uIsX THEN otherVal ELSE ui
        class(ui) ==
            LET d2v == edgeSecondDerivative(fsym, uIsX, otherVal, ui)
            IN  IF Gt(d2v, 0) THEN "edge min"
                ELSE IF Lt(d2v, 0) THEN "edge max"
                ELSE "edge inconclusive"
        row(ui, where, cls) ==
            [x |-> xx(ui), y |-> yy(ui), f |-> eval_sym_safe(fsym, xx(ui), yy(ui)),
             edge |-> edgeName, where |-> where, class |-> cls]
    IN  [i \in DOMAIN Cu |-> row(Cu[i], "interior", class(Cu[i]))]
        \o <<row(u0, "endpoint", "endpoint"), row(u1, "endpoint", "endpoint")>>

\* Where the point (x0, y0) is listed first: interior, edges, corners.
source_of(x0, y0, intTab, edgeTab, cornTab) ==
    LET at(T) == {i \in DOMAIN T : T[i].x = x0 /\ T[i].y = y0}
        first(T) == CHOOSE i \in at(T) : \A j \in at(T) : i <= j
    IN  IF at(intTab) # {} THEN <<"interior", intTab[first(intTab)].class>>
        ELSE IF at(edgeTab) # {}
        THEN <<"edge", edgeTab[first(edgeTab)].edge, edgeTab[first(edgeTab)].where>>
        ELSE IF at(cornTab) # {} THEN <<"corner">>
        ELSE <<"unknown">>

\* The candidates of the global extrema as (x, y, f) rows: interior rows,
\* edge rows, corner rows, in this order.
candidates(intTab, edgeTab, cornTab) ==
    [i \in DOMAIN intTab |-> [x |-> intTab[i].x, y |-> intTab[i].y, f |-> intTab[i].f]]
    \o [i \in DOMAIN edgeTab |-> [x |-> edgeTab[i].x, y |-> edgeTab[i].y, f |-> edgeTab[i].f]]
    \o cornTab

\* analyze_extrema(f, xInterval, yInterval, 'Plot', false); S is the answer
\* of the solver for the gradient, identity its answer to 0 == 0.
analyze_extrema(fsym, xInt, yInt, S, identity) ==
    Bind(interiorPoints(S), LAMBDA found :
    Bind(decideDomain(xInt, yInt, found), LAMBDA domain :
        LET ax == domain[1][1]
            bx == domain[1][2]
            ay == domain[2][1]
            by == domain[2][2]
            inside == SelectSeq(found, LAMBDA p :
                          p.x >= ax /\ p.x <= bx /\ p.y >= ay /\ p.y <= by)
            corner(cx, cy) == [x |-> cx, y |-> cy, f |-> eval_sym_safe(fsym, cx, cy)]
        IN
        Bind([k \in DOMAIN inside |-> interiorRow(fsym, inside[k])], LAMBDA intTab :
        Bind(dedupRows(analyze_edge_1d(fsym, "y=ay", TRUE, ax, bx, ay, identity)
                       \o analyze_edge_1d(fsym, "y=by", TRUE, ax, bx, by, identity)
                       \o analyze_edge_1d(fsym, "x=ax", FALSE, ay, by, ax, identity)
                       \o analyze_edge_1d(fsym, "x=bx", FALSE, ay, by, bx, identity)),
             LAMBDA edgeTab :
        Bind(<<corner(ax, ay), corner(ax, by), corner(bx, ay), corner(bx, by)>>,
             LAMBDA cornTab :
        Bind(candidates(intTab, edgeTab, cornTab), LAMBDA cand :
        Bind([i \in DOMAIN cand |-> cand[i].f], LAMBDA candF :
            LET extremum(m) ==
                    [x |-> cand[m[2]].x, y |-> cand[m[2]].y, f |-> m[1],
                     source |-> source_of(cand[m[2]].x, cand[m[2]].y,
                                          intTab, edgeTab, cornTab)]
            IN  [interior |-> intTab, edges |-> edgeTab, corners |-> cornTab,
                 globalMax |-> Bind(max(candF), LAMBDA m : extremum(m)),
                 globalMin |-> Bind(min(candF), LAMBDA m : extremum(m)),
                 domain |-> domain])))))))

----------------------------------------------------------------------------
(* The state machine: one action per listener and per public method.       *)

\* Inputs of the calls.
MousePositions == {<<216, 281>>, <<450, 281>>, <<450, 681>>}
WheelDeltas == {-1200, 1200}
ClickPositions == {<<450, 281>>, <<539, 377>>, <<5, 5>>}
FunctionKeys == BuiltinFunctions \cup UserFunctions \cup {"constructor", "nosuch"}
Points == {<<One, One>>}
Directions == {<<RDiv(MathPI, 4), (3 * One) \div 2>>}

\* The instance at the start of a call.
Begin == [This EXCEPT !.calls = <<>>, !.renders = 0, !.threw = FALSE, !.returned = <<>>]

Store(s) ==
    /\ cameraAngleX' = s.cameraAngleX
    /\ cameraAngleY' = s.cameraAngleY
    /\ cameraDistance' = s.cameraDistance
    /\ isDragging' = s.isDragging
    /\ lastMouseX' = s.lastMouseX
    /\ lastMouseY' = s.lastMouseY
    /\ pointX' = s.pointX
    /\ pointY' = s.pointY
    /\ tParam' = s.tParam
    /\ directionAngle' = s.directionAngle
    /\ magnitude' = s.magnitude
    /\ showGrid' = s.showGrid
    /\ showCurve' = s.showCurve
    /\ showTangentPlane' = s.showTangentPlane
    /\ showVectors' = s.showVectors
    /\ currentFunction' = s.currentFunction
    /\ functions' = s.functions
    /\ ctx' = s.ctx
    /\ calls' = s.calls
    /\ renders' = s.renders
    /\ threw' = s.threw
    /\ returned' = s.returned
    /\ UNCHANGED <<descentVars, extremaVars>>

\* A call counts against MaxOps where the specification bounds the run.
Count(bounded, name) ==
    /\ lastCall' = name
    /\ IF bounded THEN ops < MaxOps /\ ops' = ops + 1 ELSE ops' = ops

\* A page on which no GradientDescentViz has been constructed.
NoDescentViz ==
    /\ dataPoints = <<>>
    /\ m0 = 0
    /\ m1 = One
    /\ learningRate = One \div 100
    /\ pathHistory = <<>>
    /\ currentView = "data"
    /\ scene = FALSE
    /\ numDataPoints = 20
    /\ arguments = <<>>
    /\ invoked = <<>>

\* No call of analyze_extrema is under way.
NoAnalysis ==
    /\ fs = "x + y"
    /\ xInterval = <<>>
    /\ yInterval = <<>>
    /\ out = <<>>

\* The instance after `new MultivariableChainRuleViz(canvasId)`.
ChainRuleViz ==
    /\ cameraAngleX = constructor.cameraAngleX
    /\ cameraAngleY = constructor.cameraAngleY
    /\ cameraDistance = constructor.cameraDistance
    /\ isDragging = constructor.isDragging
    /\ lastMouseX = constructor.lastMouseX
    /\ lastMouseY = constructor.lastMouseY
    /\ pointX = constructor.pointX
    /\ pointY = constructor.pointY
    /\ tParam = constructor.tParam
    /\ directionAngle = constructor.directionAngle
    /\ magnitude = constructor.magnitude
    /\ showGrid = constructor.showGrid
    /\ showCurve = constructor.showCurve
    /\ showTangentPlane = constructor.showTangentPlane
    /\ showVectors = constructor.showVectors
    /\ currentFunction = constructor.currentFunction
    /\ functions = constructor.functions
    /\ ctx = constructor.ctx
    /\ calls = constructor.calls
    /\ renders = constructor.renders
    /\ threw = constructor.threw
    /\ returned = constructor.returned
    /\ lastCall = "constructor"
    /\ ops = 0

Init == ChainRuleViz /\ NoDescentViz /\ NoAnalysis

MouseDown(bounded) ==
    \E e \in MousePositions :
        Count(bounded, "mousedown") /\ Store(mousedown(Begin, e[1], e[2]))

MouseMove(bounded) ==
    \E e \in MousePositions :
        LET s == mousemove(Begin, e[1], e[2])
        IN  Abs(s.cameraAngleY) <= MaxYaw /\ Count(bounded, "mousemove") /\ Store(s)

MouseUp(bounded) == Count(bounded, "mouseup") /\ Store(mouseup(Begin))

Wheel(bounded) ==
    \E deltaY \in WheelDeltas : Count(bounded, "wheel") /\ Store(wheel(Begin, deltaY))

Click(bounded) ==
    \E e \in ClickPositions : Count(bounded, "click") /\ Store(click(Begin, e[1], e[2]))

Render(bounded) == Count(bounded, "render") /\ Store(render(Begin))

GetChainRuleValues(bounded) == Count(bounded, "getChainRuleValues") /\ Store(getChainRuleValues(Begin))

RegisterFunction(bounded) ==
    \E name \in UserFunctions :
        Count(bounded, "registerFunction") /\ Store(registerFunction(Begin, name))

SetFunction(bounded) ==
    \E funcName \in FunctionKeys : Count(bounded, "setFunction") /\ Store(setFunction(Begin, funcName))

SetPoint(bounded) ==
    \E p \in Points : Count(bounded, "setPoint") /\ Store(setPoint(Begin, p[1], p[2]))

SetDirection(bounded) ==
    \E d \in Directions : Count(bounded, "setDirection") /\ Store(setDirection(Begin, d[1], d[2]))

ToggleGrid(bounded) == Count(bounded, "toggleGrid") /\ Store(toggleGrid(Begin))
ToggleCurve(bounded) == Count(bounded, "toggleCurve") /\ Store(toggleCurve(Begin))
ToggleTangentPlane(bounded) == Count(bounded, "toggleTangentPlane") /\ Store(toggleTangentPlane(Begin))
ToggleVectors(bounded) == Count(bounded, "toggleVectors") /\ Store(toggleVectors(Begin))

\* Every listener and method, for MaxOps calls after construction.
Next ==
    \/ MouseDown(TRUE)
    \/ MouseMove(TRUE)
    \/ MouseUp(TRUE)
    \/ Wheel(TRUE)
    \/ Click(TRUE)
    \/ Render(TRUE)
    \/ GetChainRuleValues(TRUE)
    \/ RegisterFunction(TRUE)
    \/ SetFunction(TRUE)
    \/ SetPoint(TRUE)
    \/ SetDirection(TRUE)
    \/ ToggleGrid(TRUE)
    \/ ToggleCurve(TRUE)
    \/ ToggleTangentPlane(TRUE)
    \/ ToggleVectors(TRUE)

Spec == Init /\ [][Next]_vars

\* The camera under every sequence of drag and wheel events.
NextCamera ==
    \/ MouseDown(FALSE)
    \/ MouseMove(FALSE)
    \/ MouseUp(FALSE)
    \/ Wheel(FALSE)

SpecCamera == Init /\ [][NextCamera]_vars

\* drawSurface for every built-in function under a sample of the camera
\* states that drags and wheel events reach.
SampleYaws == {0, 8000, 31400}
SamplePitches == {-HalfPI, 3000, HalfPI}
SampleDistances == {3 * One, 15 * One}

InitSurface ==
    /\ cameraAngleX \in SamplePitches
    /\ cameraAngleY \in SampleYaws
    /\ cameraDistance \in SampleDistances
    /\ currentFunction \in BuiltinFunctions
    /\ isDragging = constructor.isDragging
    /\ lastMouseX = constructor.lastMouseX
    /\ lastMouseY = constructor.lastMouseY
    /\ pointX = constructor.pointX
    /\ pointY = constructor.pointY
    /\ tParam = constructor.tParam
    /\ directionAngle = constructor.directionAngle
    /\ magnitude = constructor.magnitude
    /\ showGrid = constructor.showGrid
    /\ showCurve = constructor.showCurve
    /\ showTangentPlane = constructor.showTangentPlane
    /\ showVectors = constructor.showVectors
    /\ functions = constructor.functions
    /\ ctx = constructor.ctx
    /\ calls = constructor.calls
    /\ renders = constructor.renders
    /\ threw = constructor.threw
    /\ returned = constructor.returned
    /\ lastCall = "constructor"
    /\ ops = 0
    /\ NoDescentViz
    /\ NoAnalysis

NextSurface == Render(FALSE)

SpecSurface == InitSurface /\ [][NextSurface]_vars

\* The events of pointer gestures in the order a browser delivers them:
\* mousedown, mousemove events, mouseup, then the click at the position
\* where the button was released (the canvas sits at the origin of the
\* viewport, so clientX and clientY are canvas coordinates). A mousemove
\* may also arrive while no button is down.
GestureClick ==
    /\ lastCall = "mouseup"
    /\ Count(FALSE, "click")
    /\ Store(click(Begin, lastMouseX, lastMouseY))

NextGesture ==
    \/ lastCall \in {"constructor", "click", "mousemove"} /\ ~isDragging /\ MouseDown(FALSE)
    \/ lastCall \in {"constructor", "click", "mousedown", "mousemove"} /\ MouseMove(FALSE)
    \/ lastCall = "mousemove" /\ isDragging /\ MouseUp(FALSE)
    \/ GestureClick

SpecGesture == Init /\ [][NextGesture]_vars

\* GradientDescentViz under calls of its public methods, the view toggle
\* and the arrival of three.js.
Options == [learningRate : {0}, numDataPoints : 1..MaxDataPoints]
StepArguments == {<<>>} \cup {<<n>> : n \in 0..MaxSteps}

BeginViz == [Viz EXCEPT !.invoked = <<>>]

StoreViz(s, args) ==
    /\ dataPoints' = s.dataPoints
    /\ m0' = s.m0
    /\ m1' = s.m1
    /\ learningRate' = s.learningRate
    /\ pathHistory' = s.pathHistory
    /\ currentView' = s.currentView
    /\ scene' = s.scene
    /\ numDataPoints' = s.numDataPoints
    /\ invoked' = s.invoked
    /\ arguments' = args
    /\ UNCHANGED <<cameraVars, sceneVars, isDragging, lastMouseX, lastMouseY,
                   functions, ctx, calls, renders, threw, returned, extremaVars>>

CountViz(name) == lastCall' = name /\ ops < MaxCalls /\ ops' = ops + 1

\* The instance after `new GradientDescentViz(container, options)`.
InitDescent ==
    /\ ChainRuleViz
    /\ NoAnalysis
    /\ \E options \in Options, threeLoaded \in BOOLEAN, seed \in Seeds :
            LET s == init(GradientDescentViz(options), threeLoaded, seed)
            IN  /\ dataPoints = s.dataPoints
                /\ m0 = s.m0
                /\ m1 = s.m1
                /\ learningRate = s.learningRate
                /\ pathHistory = s.pathHistory
                /\ currentView = s.currentView
                /\ scene = s.scene
                /\ numDataPoints = s.numDataPoints
                /\ invoked = s.invoked
                /\ arguments = <<options>>

Step ==
    \E args \in StepArguments :
        CountViz("step") /\ StoreViz(step(BeginViz, args), args)

NewData ==
    \E seed \in Seeds :
        CountViz("newData") /\ StoreViz(newData(BeginViz, seed), <<>>)

Reset ==
    \E seed \in Seeds :
        CountViz("reset") /\ StoreViz(reset(BeginViz, seed), <<>>)

SetLearningRate ==
    \E alpha \in LearningRates :
        CountViz("setLearningRate")
        /\ StoreViz(setLearningRate(BeginViz, alpha), <<alpha>>)

ToggleView == CountViz("toggleView") /\ StoreViz(toggleView(BeginViz), <<>>)

InitThree ==
    /\ ~scene
    /\ CountViz("initThree")
    /\ StoreViz(initThree(BeginViz), <<>>)

NextDescent ==
    \/ Step
    \/ NewData
    \/ Reset
    \/ SetLearningRate
    \/ ToggleView
    \/ InitThree

SpecDescent == InitDescent /\ [][NextDescent]_vars

\* analyze_extrema called on an expression of the family, with or without
\* the two intervals.
XIntervals == {<<>>, <<0, One>>, <<-One, One>>, <<One, -2 * One>>, <<0, Infinity>>}
YIntervals == {<<>>, <<0, One>>, <<-One, 2 * One>>, <<3 * One, 3 * One>>}
IdentitySolutions == {<<>>, <<0>>}

InitExtrema ==
    /\ ChainRuleViz
    /\ NoDescentViz
    /\ fs \in Expressions
    /\ xInterval \in XIntervals
    /\ yInterval \in YIntervals
    /\ out = <<>>

AnalyzeExtrema ==
    /\ \E S \in solveGradient(fs), identity \in IdentitySolutions :
          out' = analyze_extrema(fs, xInterval, yInterval, S, identity)
    /\ lastCall' = "analyze_extrema"
    /\ UNCHANGED <<cameraVars, sceneVars, isDragging, lastMouseX, lastMouseY,
                   functions, ctx, calls, renders, threw, returned, ops,
                   descentVars, fs, xInterval, yInterval>>

NextExtrema == AnalyzeExtrema

SpecExtrema == InitExtrema /\ [][NextExtrema]_vars

----------------------------------------------------------------------------
(* Properties.                                                             *)

dragVars == <<isDragging, lastMouseX, lastMouseY>>

\* The calls that end with this.render() on every path.
RenderingCalls ==
    {"wheel", "setPoint", "setDirection", "toggleGrid", "toggleCurve",
     "toggleTangentPlane", "toggleVectors", "render"}

\* The calls without a this.render() on any path.
SilentCalls == {"mousedown", "mouseup", "getChainRuleValues", "registerFunction"}

\* The fill commands of the surface, in the order they were issued.
SurfaceFills == SelectSeq(calls, LAMBDA c : c.layer = "surface" /\ c.op = "fill")

\* C1: after any sequence of mousedown / mousemove / mouseup / wheel events
\* the pitch cameraAngleX is within [-pi/2, pi/2] and cameraDistance is
\* within [3, 15].
C1_ClampInvariant ==
    /\ -HalfPI <= cameraAngleX /\ cameraAngleX <= HalfPI
    /\ 3 * One <= cameraDistance /\ cameraDistance <= 15 * One

\* Both clamps have acted: the pitch sits on its lower limit after a drag
\* and the distance on its upper limit after a wheel event.
C1_Witness ==
    cameraAngleX = -HalfPI /\ cameraDistance = 15 * One /\ renders = 1

\* C2: every triangle drawn by drawSurface has a light intensity between
\* 0.2 and 1.0.
C2_ShadingBounds ==
    \A i \in DOMAIN calls :
        calls[i].layer = "surface" =>
            One \div 5 <= calls[i].tag.light /\ calls[i].tag.light <= One

\* C3: drawSurface fills the triangles in non-increasing order of the
\* projected depth of their centroid, every triangle of the mesh once, so
\* the last one filled has the least centroid depth of the mesh.
C3_PainterOrder ==
    (renders = 1 /\ ~threw) =>
        /\ Len(SurfaceFills) = 2 * resolution * resolution
        /\ \A i, j \in DOMAIN SurfaceFills :
              i < j => SurfaceFills[i].tag.depth >= SurfaceFills[j].tag.depth
        /\ \A k \in DOMAIN meshTriangles(This) :
              /\ SurfaceFills[Len(SurfaceFills)].tag.depth
                    <= centroidDepth(View(This), meshTriangles(This)[k])
              /\ \E i \in DOMAIN SurfaceFills :
                    SurfaceFills[i].tag.depth
                        = centroidDepth(View(This), meshTriangles(This)[k])

\* A frame drawn under a turned camera whose triangles lie at different
\* depths, the farthest first.
C3_Witness ==
    /\ renders = 1 /\ ~threw /\ cameraAngleY = 31400 /\ currentFunction = "saddle"
    /\ Len(SurfaceFills) > 1
    /\ SurfaceFills[1].tag.depth > SurfaceFills[Len(SurfaceFills)].tag.depth

\* C4: setFunction with a key that is not an own entry of the function
\* table changes no field and issues no drawing call.
C4_InvalidKeyNoOp ==
    [][(\E k \in FunctionKeys \ functions :
            Count(TRUE, "setFunction") /\ Store(setFunction(Begin, k)))
        => /\ UNCHANGED <<cameraVars, sceneVars, dragVars, functions>>
           /\ calls' = <<>> /\ renders' = 0 /\ threw' = FALSE]_vars

\* C5: in every reachable camera state every vertex of the surface mesh is
\* projected with a strictly positive depth.
C5_DepthPositive ==
    \A k \in DOMAIN meshTriangles(This) :
        LET tri == meshTriangles(This)[k]
        IN  /\ project3D(View(This), tri.p1.x, tri.p1.y, tri.p1.z).depth > 0
            /\ project3D(View(This), tri.p2.x, tri.p2.y, tri.p2.z).depth > 0
            /\ project3D(View(This), tri.p3.x, tri.p3.y, tri.p3.z).depth > 0

\* C6: in every camera state project3D(0, 0, 0) is the centre of the canvas
\* with depth cameraDistance (so every axis drawn starts at the centre);
\* with yaw 0, pitch 0 and distance 8 the depth is 8.
C6_OriginProjection ==
    /\ project3D(View(This), 0, 0, 0)
          = [x |-> (canvasWidth * Px) \div 2, y |-> (canvasHeight * Px) \div 2,
             depth |-> cameraDistance]
    /\ \A i \in DOMAIN calls :
          calls[i].layer = "axes" =>
              calls[i].pts[1] = <<(canvasWidth * Px) \div 2, (canvasHeight * Px) \div 2>>
    /\ project3D(View([constructor EXCEPT !.cameraAngleX = 0, !.cameraAngleY = 0,
                                          !.cameraDistance = 8 * One]), 0, 0, 0).depth
          = 8 * One

\* The axes have been drawn under a camera that was turned and moved.
C6_Witness ==
    /\ renders = 1 /\ cameraAngleY # 8000 /\ cameraAngleX # 3000
    /\ cameraDistance = 3 * One
    /\ \E i \in DOMAIN calls : calls[i].layer = "axes"

\* C7 as stated: only an explicit render() call draws; the camera and
\* scene mutators never invoke render() themselves.
C7_NoAutoRender == lastCall # "render" => renders = 0

\* C7 as amended: wheel, setPoint, setDirection and the four toggles, a
\* mousemove during a drag, and every call that changes a camera or scene
\* field (so every setFunction that takes effect) invoke render()
\* themselves, exactly once, after updating the fields; mousedown, mouseup,
\* getChainRuleValues and a mousemove outside a drag draw nothing.
C7_MutatorsRender ==
    [][/\ (\/ lastCall' \in RenderingCalls
           \/ lastCall' = "mousemove" /\ isDragging
           \/ cameraVars' # cameraVars
           \/ sceneVars' # sceneVars)
          => (renders' = 1 /\ calls' # <<>> /\ calls'[1] = ClearCmd)
       /\ (\/ lastCall' \in SilentCalls
           \/ lastCall' = "mousemove" /\ ~isDragging)
          => (renders' = 0 /\ calls' = <<>>)]_vars

\* setPoint was the first call and has drawn a frame.
C7_Witness ==
    /\ ops = 1 /\ lastCall = "setPoint" /\ pointX = One /\ pointY = One
    /\ renders = 1 /\ Len(calls) > 1

\* C8: render() changes no camera, drag or scene field; its commands start
\* with the clear of the whole canvas; and a render() that follows a call
\* which ended by rendering issues the same commands again.
C8_RenderIdempotent ==
    [][lastCall' = "render" =>
        /\ UNCHANGED <<cameraVars, sceneVars, dragVars, functions>>
        /\ renders' = 1 /\ calls' # <<>> /\ calls'[1] = ClearCmd
        /\ (renders = 1 => calls' = calls /\ threw' = threw)]_vars

\* Two calls were made, the second a render() of the untouched constructor
\* state, and the frame is complete.
C8_Witness ==
    /\ ops = 2 /\ lastCall = "render" /\ renders = 1 /\ ~threw /\ Len(calls) > 1
    /\ \A name \in DOMAIN constructor \ {"ctx", "calls", "renders", "threw"} :
          This[name] = constructor[name]

\* C9: cameraAngleX and cameraAngleY change only in a mousemove during a
\* drag and cameraDistance only in a wheel event; every other call leaves
\* the three of them as they were.
C9_CameraFrame ==
    [][/\ <<cameraAngleX, cameraAngleY>>' # <<cameraAngleX, cameraAngleY>>
          => (lastCall' = "mousemove" /\ isDragging)
       /\ cameraDistance' # cameraDistance => lastCall' = "wheel"]_vars

\* The camera was moved by the first call and a later call of another kind
\* left it where it was.
C9_Witness ==
    /\ ops = 2 /\ lastCall = "setPoint" /\ cameraDistance = 3 * One
    /\ pointX = One /\ renders = 1

\* The instance with every field but the camera's as the constructor set it.
cameraOnly(s) ==
    [constructor EXCEPT !.cameraAngleX = s.cameraAngleX,
                        !.cameraAngleY = s.cameraAngleY,
                        !.cameraDistance = s.cameraDistance]

ProbePoints == {<<0, 0, 0>>, <<One, 0, 0>>, <<2 * One, -2 * One, 8 * One>>, <<-One, One, -One>>}

C11_FlatPlane ==
    (currentFunction = "flat" /\ "flat" \in functions /\ renders = 1) =>
        /\ \A k \in DOMAIN meshTriangles(This) :
              /\ normal(meshTriangles(This)[k]).nx = 0
              /\ normal(meshTriangles(This)[k]).ny = 0
              /\ normal(meshTriangles(This)[k]).nz > 0
        /\ Len(SurfaceFills) = 2 * resolution * resolution
        /\ \A i \in DOMAIN SurfaceFills : SurfaceFills[i].tag.light = One

\* The pipeline C12 describes, written out step by step: yaw about the
\* vertical axis, pitch about the horizontal axis, the distance offset and
\* the perspective division by the depth.
ReferenceProjection(yaw, pitch, distance, x, y, z) ==
    LET xYaw == RDiv(x * MathCos(yaw) - z * MathSin(yaw), AngleOne)
        zYaw == RDiv(x * MathSin(yaw) + z * MathCos(yaw), AngleOne)
        yPitch == RDiv(y * MathCos(pitch) - zYaw * MathSin(pitch), AngleOne)
        zPitch == RDiv(y * MathSin(pitch) + zYaw * MathCos(pitch), AngleOne)
        depth == zPitch + distance
    IN  [x |-> (canvasWidth * Px) \div 2 + RDiv(xYaw * 600 * Px, depth),
         y |-> (canvasHeight * Px) \div 2 - RDiv(yPitch * 600 * Px, depth),
         depth |-> depth]

\* Points in front of the camera in every sampled camera state.
NearPoints == {<<0, 0, 0>>, <<One, 0, 0>>, <<0, One, 0>>, <<0, 0, One>>, <<-One, One, 2 * One>>}

\* C12: project3D(x, y, z) equals the reference pipeline (yaw on (x, z),
\* pitch on (y, z), depth = rotated z + cameraDistance, scale = 600 / depth,
\* screen = centre +/- scaled x, y); with yaw 0 and pitch +pi/2 or -pi/2
\* that is exactly depth = d + y or d - y, screenX = w/2 + 600 x / depth and
\* screenY = h/2 + 600 z / depth or h/2 - 600 z / depth.
C12_ProjectionAlgorithm ==
    \A p \in NearPoints :
        /\ project3D(View(This), p[1], p[2], p[3])
              = ReferenceProjection(cameraAngleY, cameraAngleX, cameraDistance,
                                    p[1], p[2], p[3])
        /\ (cameraAngleY = 0 /\ cameraAngleX = HalfPI) =>
              project3D(View(This), p[1], p[2], p[3])
                = [x |-> (canvasWidth * Px) \div 2
                           + RDiv(p[1] * 600 * Px, cameraDistance + p[2]),
                   y |-> (canvasHeight * Px) \div 2
                           + RDiv(p[3] * 600 * Px, cameraDistance + p[2]),
                   depth |-> cameraDistance + p[2]]
        /\ (cameraAngleY = 0 /\ cameraAngleX = -HalfPI) =>
              project3D(View(This), p[1], p[2], p[3])
                = [x |-> (canvasWidth * Px) \div 2
                           + RDiv(p[1] * 600 * Px, cameraDistance - p[2]),
                   y |-> (canvasHeight * Px) \div 2
                           - RDiv(p[3] * 600 * Px, cameraDistance - p[2]),
                   depth |-> cameraDistance - p[2]]

\* A frame has been projected with yaw 0 and the pitch on its upper limit.
C12_Witness ==
    cameraAngleY = 0 /\ cameraAngleX = HalfPI /\ renders = 1 /\ Len(calls) > 1

\* C13: whatever calls came before, getChainRuleValues returns an object
\* whose pointX, pointY are the current point, z = f(pointX, pointY), dzdx
\* and dzdy the current function's partials there, dxdt and dydt the
\* direction vector and dzdt = dzdx * dxdt + dzdy * dydt; the call changes
\* no field and draws nothing.
C13_ChainRuleValues ==
    [][lastCall' = "getChainRuleValues" =>
        /\ UNCHANGED <<cameraVars, sceneVars, dragVars, functions, ctx>>
        /\ calls' = <<>> /\ renders' = 0
        /\ Len(returned') = 1
        /\ returned'[1].pointX = pointX /\ returned'[1].pointY = pointY
        /\ returned'[1].z = f(currentFunction, pointX, pointY)
        /\ returned'[1].dzdx = dfdx(currentFunction, pointX, pointY)
        /\ returned'[1].dzdy = dfdy(currentFunction, pointX, pointY)
        /\ returned'[1].dxdt = RDiv(magnitude * MathCos(directionAngle), AngleOne)
        /\ returned'[1].dydt = RDiv(magnitude * MathSin(directionAngle), AngleOne)
        /\ returned'[1].dzdt
              = RDiv(returned'[1].dzdx * returned'[1].dxdt
                     + returned'[1].dzdy * returned'[1].dydt, One)]_vars

\* Everything a toggle must leave alone besides the four flags.
toggleFrame ==
    <<cameraVars, dragVars, pointX, pointY, tParam, directionAngle, magnitude,
      currentFunction, functions>>

\* The most recent call has issued a command of the layer.
Drew(layer) == \E i \in DOMAIN calls : calls[i].layer = layer

\* C14: each toggle flips its own flag and leaves the other three flags,
\* the point, the direction, the function and the camera unchanged; the
\* same toggle applied twice to the constructor state restores its fields;
\* and a frame holds commands of the grid, curve, tangent plane or vector
\* layer only while that layer's flag is true (and, when the frame is
\* complete, it then holds them).
C14_Toggles ==
    [][/\ lastCall' = "toggleGrid" =>
            /\ showGrid' = ~showGrid
            /\ UNCHANGED <<showCurve, showTangentPlane, showVectors, toggleFrame>>
       /\ lastCall' = "toggleCurve" =>
            /\ showCurve' = ~showCurve
            /\ UNCHANGED <<showGrid, showTangentPlane, showVectors, toggleFrame>>
       /\ lastCall' = "toggleTangentPlane" =>
            /\ showTangentPlane' = ~showTangentPlane
            /\ UNCHANGED <<showGrid, showCurve, showVectors, toggleFrame>>
       /\ lastCall' = "toggleVectors" =>
            /\ showVectors' = ~showVectors
            /\ UNCHANGED <<showGrid, showCurve, showTangentPlane, toggleFrame>>
       /\ (/\ lastCall' = lastCall
           /\ lastCall \in {"toggleGrid", "toggleCurve", "toggleTangentPlane",
                             "toggleVectors"}
           /\ ops' = 2) =>
            <<cameraVars, sceneVars, dragVars, functions>>'
                = <<<<constructor.cameraAngleX, constructor.cameraAngleY,
                      constructor.cameraDistance>>,
                    <<constructor.pointX, constructor.pointY, constructor.tParam,
                      constructor.directionAngle, constructor.magnitude,
                      constructor.showGrid, constructor.showCurve,
                      constructor.showTangentPlane, constructor.showVectors,
                      constructor.currentFunction>>,
                    <<constructor.isDragging, constructor.lastMouseX,
                      constructor.lastMouseY>>,
                    constructor.functions>>
       /\ (Drew("grid")' => showGrid') /\ (Drew("curve")' => showCurve')
       /\ (Drew("tangentPlane")' => showTangentPlane')
       /\ (Drew("vectors")' => showVectors')
       /\ (renders' = 1 /\ ~threw') =>
            /\ Drew("grid")' = showGrid' /\ Drew("curve")' = showCurve'
            /\ Drew("tangentPlane")' = showTangentPlane'
            /\ Drew("vectors")' = showVectors']_vars

\* toggleCurve and then toggleGrid: the frame drawn shows neither layer but
\* still the vectors and the surface.
C14_Witness ==
    /\ ops = 2 /\ lastCall = "toggleGrid" /\ ~showGrid /\ ~showCurve
    /\ showVectors /\ renders = 1 /\ ~threw
    /\ ~Drew("grid") /\ ~Drew("curve") /\ Drew("vectors") /\ Drew("surface")

\* The grid C15 names: every multiple of clickStep from -2 to 2, both ends
\* included, as indices <<i, j>> in scan order.
GridIndices == (0..clickSamples) \X (0..clickSamples)

GridSample(p) == <<-2 * One + p[1] * clickStep, -2 * One + p[2] * clickStep>>

\* The sample of that grid whose projection on z = 0 is nearest to the
\* click, the first in scan order among equals, with its distance.
NearestGridSample(v, clickX, clickY) ==
    Bind([p \in GridIndices |->
             clickDistance(v, clickX, clickY, GridSample(p)[1], GridSample(p)[2])],
         LAMBDA dist :
            Bind(CHOOSE p \in GridIndices :
                    \A q \in GridIndices :
                        \/ dist[p] < dist[q]
                        \/ dist[p] = dist[q]
                              /\ p[1] * (clickSamples + 1) + p[2]
                                    <= q[1] * (clickSamples + 1) + q[2],
                 LAMBDA p : [minDist |-> dist[p], bestX |-> GridSample(p)[1],
                             bestY |-> GridSample(p)[2]]))

\* C15: a click (taken here while no drag is in progress) sets the point to
\* the sample of the grid over [-2, 2] x [-2, 2] whose projection is nearest
\* to the click and redraws, when that sample is less than 30 pixels away;
\* otherwise it leaves the point alone and draws nothing; a point set by a
\* click lies in [-2, 2]^2.
C15_ClickSetsPoint ==
    [][\A e \in ClickPositions :
          (lastCall' = "click" /\ ~isDragging /\ Count(TRUE, "click")
              /\ Store(click(Begin, e[1], e[2]))) =>
             IF NearestGridSample(View(This), e[1], e[2]).minDist < 30 * Px
             THEN /\ pointX' = NearestGridSample(View(This), e[1], e[2]).bestX
                  /\ pointY' = NearestGridSample(View(This), e[1], e[2]).bestY
                  /\ -2 * One <= pointX' /\ pointX' <= 2 * One
                  /\ -2 * One <= pointY' /\ pointY' <= 2 * One
                  /\ renders' = 1
             ELSE UNCHANGED <<pointX, pointY>> /\ calls' = <<>>]_vars

\* C16: a gesture delivered as mousedown, one or more mousemove, mouseup,
\* click rotates the view and leaves pointX and pointY as they were, and a
\* mousemove received while no drag is in progress changes no field.
C16_DragLeavesPoint ==
    [][/\ UNCHANGED <<pointX, pointY>>
       /\ (lastCall' = "mousemove" /\ ~isDragging) =>
             (UNCHANGED <<cameraVars, sceneVars, dragVars, functions, ctx>>
              /\ calls' = <<>>)]_vars

----------------------------------------------------------------------------
(* GradientDescentViz.step and GradientDescentViz.newData.                 *)

IsUpdate(c) == c = "gradientDescentStep"
IsDraw(c) == c = "draw"

\* The parameters one update leads to from the parameters m.
NextParameters(m) == descend([Viz EXCEPT !.m0 = m[1], !.m1 = m[2]])

C18_NewData ==
    [][lastCall' = "newData" =>
        /\ Len(dataPoints') = numDataPoints
        /\ \E seed \in Seeds :
              dataPoints' = generateData(Viz, seed).dataPoints
        /\ UNCHANGED <<m0, m1, learningRate, numDataPoints>>
        /\ pathHistory' = << <<m0, m1>> >>]_vars

\* newData() after an update has moved the parameters off their initial
\* and reset values: the path had more than one entry before the call.
C18_Witness ==
    /\ lastCall = "newData"
    /\ m0 \notin {MathRandom(seed, 1) * 4 - 2 * One : seed \in Seeds} \cup {0}
    /\ Len(dataPoints) = MaxDataPoints
    /\ pathHistory = << <<m0, m1>> >>

----------------------------------------------------------------------------
(* The mesh of drawSurface.                                                *)

Corners(tri) == {tri.p1, tri.p2, tri.p3}
SetMin(S) == CHOOSE a \in S : \A b \in S : a <= b
SetMax(S) == CHOOSE a \in S : \A b \in S : a >= b

\* The two triangles of one cell: four corners, the corners of an
\* axis-parallel rectangle, and the shared edge is its diagonal from
\* (x2, y1) to (x1, y2).
DiagonalSplit(a, b) ==
    LET corners == Corners(a) \cup Corners(b)
        xs == {p.x : p \in corners}
        ys == {p.y : p \in corners}
    IN  /\ Cardinality(corners) = 4
        /\ Cardinality(xs) = 2
        /\ Cardinality(ys) = 2
        /\ {<<p.x, p.y>> : p \in corners} = xs \X ys
        /\ {<<p.x, p.y>> : p \in Corners(a) \cap Corners(b)}
              = {<<SetMax(xs), SetMin(ys)>>, <<SetMin(xs), SetMax(ys)>>}

\* C19: a render builds 2 * N * N triangles for the N x N grid over
\* [-2, 2] x [-2, 2] (N = resolution) and paints every one of them; every
\* vertex is (x, y, f(x, y)) for the current function; the two triangles of
\* a cell share the diagonal from (x2, y1) to (x1, y2) and together use
\* exactly the four corners of the cell; the N * N cells are distinct.
C19_Mesh ==
    lastCall = "render" =>
        LET mesh == meshTriangles(This)
            N == resolution
        IN  /\ Len(mesh) = 2 * N * N
            /\ Len(SurfaceFills) = 2 * N * N
            /\ \A k \in DOMAIN mesh : \A p \in Corners(mesh[k]) :
                  /\ p.z = f(currentFunction, p.x, p.y)
                  /\ -2 * One <= p.x /\ p.x <= 2 * One
                  /\ -2 * One <= p.y /\ p.y <= 2 * One
            /\ \A c \in 1..(N * N) : DiagonalSplit(mesh[2 * c - 1], mesh[2 * c])
            /\ Cardinality({Corners(mesh[2 * c - 1]) \cup Corners(mesh[2 * c]) :
                               c \in 1..(N * N)}) = N * N
            /\ \A k \in DOMAIN mesh : \E i \in DOMAIN SurfaceFills :
                  SurfaceFills[i].pts =
                     <<projectXY(View(This), mesh[k].p1.x, mesh[k].p1.y, mesh[k].p1.z),
                       projectXY(View(This), mesh[k].p2.x, mesh[k].p2.y, mesh[k].p2.z),
                       projectXY(View(This), mesh[k].p3.x, mesh[k].p3.y, mesh[k].p3.z)>>

\* A rendered frame of a surface that is not flat.
C19_Witness ==
    /\ lastCall = "render"
    /\ currentFunction = "saddle"
    /\ Len(SurfaceFills) = 2 * resolution * resolution
    /\ \E k \in DOMAIN meshTriangles(This) : meshTriangles(This)[k].p2.z # 0

----------------------------------------------------------------------------
(* The arrowheads of drawArrow3D.                                          *)

\* Rounding of a 10 pixel stroke to 1/Px pixels: a fiftieth of a radian in
\* its direction and two units in its length.
AngleTolerance == AngleOne \div 50
LengthTolerance == Px \div 5

\* a - b as an angle in (-pi, pi].
AngleBetween(a, b) == ((a - b + MathPI + 2 * TwoPI - 1) % TwoPI) - MathPI + 1

\* The direction of the stroke from p to q.
Direction(p, q) == MathAtan2(q[2] - p[2], q[1] - p[1])

\* head is the arrowhead of the shaft from p1 to p2: two strokes from p2,
\* each 10 pixels long, at pi/6 from the shaft, one on each side of it.
Arrowhead(p1, p2, head) ==
    LET back == Direction(p2, p1)
        d1 == AngleBetween(Direction(head[1], head[2]), back)
        d2 == AngleBetween(Direction(head[3], head[4]), back)
    IN  /\ Len(head) = 4
        /\ head[1] = p2
        /\ head[3] = p2
        /\ Abs(MathHypot(head[2][1] - p2[1], head[2][2] - p2[2]) - 10 * Px)
              <= LengthTolerance
        /\ Abs(MathHypot(head[4][1] - p2[1], head[4][2] - p2[2]) - 10 * Px)
              <= LengthTolerance
        /\ Abs(Abs(d1) - RDiv(MathPI, 6)) <= AngleTolerance
        /\ Abs(Abs(d2) - RDiv(MathPI, 6)) <= AngleTolerance
        /\ (d1 < 0) # (d2 < 0)

FinitePoint(p) == Finite(p[1]) /\ Finite(p[2])

\* The shafts drawn by the most recent call, with finite and different
\* projected endpoints, as indices into calls.
Shafts ==
    {i \in 1..(Len(calls) - 1) :
        /\ calls[i].layer = "vectors" /\ calls[i].shape = "line"
        /\ calls[i + 1].shape = "arrowhead"
        /\ FinitePoint(calls[i].pts[1]) /\ FinitePoint(calls[i].pts[2])
        /\ calls[i].pts[1] # calls[i].pts[2]}

\* Arrows from the origin and from (1, 1, 2), as drawArrow3D arguments.
ArrowProbes ==
    {<<<<0, 0, 0>>, <<One, 0, 0>>>>, <<<<0, 0, 0>>, <<0, One, 0>>>>,
     <<<<0, 0, 0>>, <<0, 0, One>>>>, <<<<One, One, 2 * One>>, <<0, One, One>>>>}

\* C20: every arrow drawn whose projected endpoints are finite and differ
\* has an arrowhead of two strokes that start at the projected end point,
\* are 10 pixels long and make the angle pi/6 with the shaft, one on each
\* side of it, up to the rounding of the stroke ends; so has the arrow
\* drawArrow3D draws for each of the probe arrows under the current camera.
C20_Arrowhead ==
    /\ \A i \in Shafts :
          Arrowhead(calls[i].pts[1], calls[i].pts[2], calls[i + 1].pts)
    /\ \A a \in ArrowProbes :
          LET p1 == projectXY(View(This), a[1][1], a[1][2], a[1][3])
              p2 == projectXY(View(This), a[2][1], a[2][2], a[2][3])
          IN  (FinitePoint(p1) /\ FinitePoint(p2) /\ p1 # p2) =>
                 Arrowhead(p1, p2, arrowHead(p1, p2))

\* A frame with four arrows, one of them slanted on the screen.
C20_Witness ==
    /\ lastCall = "render"
    /\ Cardinality(Shafts) = 4
    /\ \E i \in Shafts :
          /\ calls[i].pts[1][1] # calls[i].pts[2][1]
          /\ calls[i].pts[1][2] # calls[i].pts[2][2]

----------------------------------------------------------------------------
(* The update rule of gradient descent.                                    *)

RECURSIVE Sum(_)
Sum(terms) == IF terms = <<>> THEN 0 ELSE terms[1] + Sum(Tail(terms))

\* The gradient of the mean squared error of the line y = a + b x over the
\* points: the means of 2 (a + b x - y) and of 2 (a + b x - y) x.
MeanSquaredErrorGradient(points, a, b) ==
    LET n == Len(points)
        residual(i) == a + RDiv(b * points[i].x, One) - points[i].y
    IN  <<RDiv(Sum([i \in 1..n |-> 2 * residual(i)]), n),
          RDiv(Sum([i \in 1..n |-> RDiv(2 * residual(i) * points[i].x, One)]), n)>>

\* C22: a call that makes one gradientDescentStep sets
\* m0' = m0 - learningRate * gradM0 and m1' = m1 - learningRate * gradM1,
\* both components of the gradient taken at the parameters before the step,
\* appends [m0', m1'] to pathHistory and leaves dataPoints, learningRate
\* and currentView unchanged.
C22_UpdateRule ==
    [][(lastCall' = "step" /\ Len(SelectSeq(invoked', IsUpdate)) = 1) =>
        LET g == MeanSquaredErrorGradient(dataPoints, m0, m1)
        IN  /\ m0' = m0 - RDiv(learningRate * g[1], One)
            /\ m1' = m1 - RDiv(learningRate * g[2], One)
            /\ pathHistory' = Append(pathHistory, <<m0', m1'>>)
            /\ UNCHANGED <<dataPoints, learningRate, currentView>>]_vars

\* One update has been made over two data points and has moved both
\* parameters.
C22_Witness ==
    /\ lastCall = "step"
    /\ Len(SelectSeq(invoked, IsUpdate)) = 1
    /\ Len(dataPoints) = 2
    /\ Len(pathHistory) >= 2
    /\ pathHistory[Len(pathHistory)][1] # pathHistory[Len(pathHistory) - 1][1]
    /\ pathHistory[Len(pathHistory)][2] # pathHistory[Len(pathHistory) - 1][2]

----------------------------------------------------------------------------
(* analyze_extrema: the second-derivative test and the global extrema.     *)

Labels == {"local min", "local max", "saddle", "inconclusive"}

\* Values of D and fxx: negative, zero, positive, infinite and NaN.
HessianProbes == {-Infinity, -2 * One, -1, 0, 1, 2 * One, Infinity, NaN}

\* cls is the label of the second-derivative test for (D, fxxv), the
\* comparisons being those of doubles (false where an operand is NaN).
SecondDerivativeTest(D, fxxv, cls) ==
    /\ cls \in Labels
    /\ cls = "local min" <=> (Gt(D, 0) /\ Gt(fxxv, 0))
    /\ cls = "local max" <=> (Gt(D, 0) /\ Lt(fxxv, 0))
    /\ cls = "saddle" <=> Lt(D, 0)
    /\ cls = "inconclusive" <=>
          ~((Gt(D, 0) /\ Gt(fxxv, 0)) \/ (Gt(D, 0) /\ Lt(fxxv, 0)) \/ Lt(D, 0))
    /\ (D = 0 \/ D = NaN \/ (Gt(D, 0) /\ fxxv = 0) \/ (Gt(D, 0) /\ fxxv = NaN)) =>
          cls = "inconclusive"

\* C23: classify_hessian(D, fxx) returns one of the four labels:
\* 'local min' iff D > 0 and fxx > 0, 'local max' iff D > 0 and fxx < 0,
\* 'saddle' iff D < 0, 'inconclusive' in every remaining case (D = 0,
\* D > 0 with fxx = 0, D NaN, or D > 0 with fxx NaN); and every row of the
\* interior table carries the label of its own D and fxx.
C23_Classification ==
    /\ \A D \in HessianProbes, fxxv \in HessianProbes :
          SecondDerivativeTest(D, fxxv, classify_hessian(D, fxxv))
    /\ lastCall = "analyze_extrema" =>
          \A i \in DOMAIN out.interior :
              SecondDerivativeTest(out.interior[i].D, out.interior[i].fxx,
                                   out.interior[i].class)

\* An interior critical point with D = 0 has been classified.
C23_Witness ==
    /\ lastCall = "analyze_extrema"
    /\ \E i \in DOMAIN out.interior :
          out.interior[i].D = 0 /\ out.interior[i].class = "inconclusive"

\* The (x, y, f) of every row of the three tables of the result o.
TableRows(o) ==
    {<<o.interior[i].x, o.interior[i].y, o.interior[i].f>> : i \in DOMAIN o.interior}
    \cup {<<o.edges[i].x, o.edges[i].y, o.edges[i].f>> : i \in DOMAIN o.edges}
    \cup {<<o.corners[i].x, o.corners[i].y, o.corners[i].f>> : i \in DOMAIN o.corners}

\* The four corners of the rectangle o.domain = [ax bx; ay by].
DomainCorners(o) == {<<x, y>> : x \in {o.domain[1][1], o.domain[1][2]},
                                y \in {o.domain[2][1], o.domain[2][2]}}

\* C21: out.globalMax.f is >= the f of every row of the interior, edges
\* and corners tables and out.globalMin.f is <= all of them; the reported
\* (x, y) of each is a row whose f equals that value; and the rows contain
\* the four corners of the rectangle out.domain.
C21_GlobalExtrema ==
    lastCall = "analyze_extrema" =>
        /\ \A r \in TableRows(out) :
              Ge(out.globalMax.f, r[3]) /\ Le(out.globalMin.f, r[3])
        /\ out.globalMax.f # NaN
        /\ <<out.globalMax.x, out.globalMax.y, out.globalMax.f>> \in TableRows(out)
        /\ out.globalMin.f # NaN
        /\ <<out.globalMin.x, out.globalMin.y, out.globalMin.f>> \in TableRows(out)
        /\ DomainCorners(out) \subseteq {<<r[1], r[2]>> : r \in TableRows(out)}

\* C21, amended: the same over the rows whose f is not NaN, which max and
\* min skip; where some row has such an f, the reported (x, y) of each
\* extremum is a row whose f equals its value; the rows contain the four
\* corners of out.domain.
C21_GlobalExtremaOmitNaN ==
    lastCall = "analyze_extrema" =>
        /\ \A r \in TableRows(out) :
              r[3] # NaN =>
                 Ge(out.globalMax.f, r[3]) /\ Le(out.globalMin.f, r[3])
        /\ (\E r \in TableRows(out) : r[3] # NaN) =>
              /\ out.globalMax.f # NaN
              /\ <<out.globalMax.x, out.globalMax.y, out.globalMax.f>> \in TableRows(out)
              /\ out.globalMin.f # NaN
              /\ <<out.globalMin.x, out.globalMin.y, out.globalMin.f>> \in TableRows(out)
        /\ DomainCorners(out) \subseteq {<<r[1], r[2]>> : r \in TableRows(out)}

\* The expression is 0/0 at a corner of the rectangle: the corner's row
\* has f = NaN, and the extrema are those of the other rows.
C21_Witness ==
    /\ lastCall = "analyze_extrema"
    /\ \E i \in DOMAIN out.corners : out.corners[i].f = NaN
    /\ out.globalMax.f # NaN
    /\ out.globalMin.f # NaN
    /\ out.globalMax.f > out.globalMin.f

====
